---------------------------- MODULE Spec2Model ----------------------------
(***************************************************************************)
(* A model of simlib's ptrace sandbox (include/sandbox.h):                 *)
(*   - the syscall policy Sandbox::DefaultCallback,                        *)
(*   - the supervisor Sandbox::Impl<Callback, Timer>::execute,             *)
(*   - the kernel's view of the tracee (ptrace stops, wait statuses),      *)
(*   - the wall-clock timer that kills the tracee.                         *)
(*                                                                         *)
(* Two specifications share the variables:                                 *)
(*   Spec        one run of execute() against a tracee and a timer;        *)
(*   SpecPolicy  one DefaultCallback object driven with every syscall      *)
(*               number of both architectures.                             *)
(***************************************************************************)
EXTENDS Integers, Sequences, FiniteSets, TLC

(***************************************************************************)
(* Bounds of the model.                                                    *)
(***************************************************************************)
\* syscall numbers offered to the policy are 0..MaxSyscallNo
MaxSyscallNo == 380
\* on_entry calls made on one policy object in SpecPolicy
MaxCalls == 3
\* largest /proc/<pid>/statm sample, in pages
MaxVmPages == 2
\* calls of Sandbox::run made one after the other
MaxRuns == 2
\* longest `path` handed to abspath
MaxPathLen == 4
\* descriptors the process can have open besides 0, 1 and 2
MaxFds == 3

(***************************************************************************)
(* Program constants.                                                      *)
(***************************************************************************)
ARCH_i386 == 0
ARCH_x86_64 == 1
UNSUCCESSFUL_SYS_BRK_LIMIT == 128

\* the tracee's pid (cpid) and some other process
cpid == 7
OtherPid == cpid + 1

allowed_syscalls_i386 ==
  << 1, 3, 4, 6, 13, 20, 24, 27, 29, 45, 47, 49, 50, 67, 72, 73, 76, 77,
     78, 82, 90, 91, 100, 108, 118, 125, 142, 143, 144, 145, 146, 148, 150,
     151, 152, 153, 162, 163, 168, 174, 175, 176, 177, 179, 180, 181, 184,
     187, 191, 192, 197, 199, 200, 201, 202, 219, 224, 231, 232, 239, 240,
     244, 250, 252, 265, 266, 267, 269, 272, 308, 309, 312, 323, 328, 333,
     334, 355, 376 >>

\* the first two entries exchanged
allowed_syscalls_x86_64_unsorted ==
  << 1, 0, 3, 5, 7, 9, 10, 11, 12, 13, 14, 17, 18, 19, 20, 23, 25, 26, 28,
     34, 35, 37, 39, 40, 60, 73, 74, 75, 96, 97, 98, 102, 104, 107, 108,
     125, 127, 128, 130, 138, 149, 150, 151, 152, 186, 193, 196, 201, 202,
     211, 221, 228, 229, 230, 231, 270, 271, 274, 284, 290, 295, 296, 318,
     325 >>

allowed_syscalls_x86_64 ==
  << 0, 1, 3, 5, 7, 9, 10, 11, 12, 13, 14, 17, 18, 19, 20, 23, 25, 26, 28,
     34, 35, 37, 39, 40, 60, 73, 74, 75, 96, 97, 98, 102, 104, 107, 108,
     125, 127, 128, 130, 138, 149, 150, 151, 152, 186, 193, 196, 201, 202,
     211, 221, 228, 229, 230, 231, 270, 271, 274, 284, 290, 295, 296, 318,
     325 >>

\* DefaultCallback::limited_syscalls as constructed; index arch + 1
limited_syscalls_initial ==
  << << [syscall |-> 11,  limit |-> 1],
        [syscall |-> 33,  limit |-> 1],
        [syscall |-> 85,  limit |-> 1],
        [syscall |-> 122, limit |-> 1],
        [syscall |-> 243, limit |-> 1] >>,
     << [syscall |-> 21,  limit |-> 1],
        [syscall |-> 59,  limit |-> 1],
        [syscall |-> 63,  limit |-> 1],
        [syscall |-> 89,  limit |-> 1],
        [syscall |-> 158, limit |-> 1],
        [syscall |-> 205, limit |-> 1] >> >>

sys_open == <<5, 2>>
sys_lseek == <<19, 8>>
sys_llseek_i386 == 140
sys_tgkill == <<270, 234>>
sys_brk == <<45, 12>>

(***************************************************************************)
(* Tracee memory and registers.  A register record holds the two argument  *)
(* registers the policy inspects and the return-value register.            *)
(***************************************************************************)
Unreadable == "<EFAULT>"

\* read_cstring: the NUL-terminated string at an address of the tracee
ReadString(addr) ==
  CASE addr = 3 -> "/etc/hostname"
    [] addr = 4 -> "/etc/passwd"
    [] addr = 5 -> "/etc/hostname/"
    [] OTHER    -> Unreadable

\* values of an argument register tried by the model
ArgValues == {-1, 0, 1, 2, 3, 4, 5, cpid, OtherPid}

NoRegs == [arg1 |-> 0, arg2 |-> 0, ret |-> 0]

\* wait(2) statuses: kind is "stopped" (val: the stop signal), "exited"
\* (val: the exit code) or "signaled" (val: the terminating signal)
NoStatus == [kind |-> "none", val |-> ""]

\* ExitStat; `how` records which return statement built it
\* runtime is "0" or "stopAndGetRuntime", the timer's reading
NoVerdict == [how |-> "none", status |-> NoStatus, runtime |-> "0",
              vm_peak |-> 0, message |-> ""]


\* no FileDescriptor object, no descriptor open
NoObject ==
  [live |-> FALSE, fd_ |-> -1, open |-> {}, owned |-> {}, bad_close |-> FALSE]

(***************************************************************************)
(* State.                                                                  *)
(***************************************************************************)
VARIABLES
  \* the policy object `func` (a DefaultCallback)
  arch,                          \* CallbackBase::arch, -1 until detected
  limited_syscalls,              \* DefaultCallback::limited_syscalls
  unsuccessful_SYS_brk_counter,
  error_message,
  allowed_files,                 \* the list handed to isSysOpenAllowed
  \* the tracee as the kernel sees it: a record with the fields
  \*   state     "unborn" | "setup" | "running" | "insys" | "stopped" | "zombie" | "reaped"
  \*   stop      kind of the current ptrace stop: "none" | "signal" | "entry" | "exit"
  \*   stopsig   signal the current stop reports
  \*   reported  the current stop has been returned by a waitpid
  \*   mode      last resume request: "syscall" (PTRACE_SYSCALL) | "cont" (PTRACE_CONT)
  \*   sysno     orig_eax / orig_rax of the syscall in progress
  \*   status    wait status once terminated
  \*   prog      the program it runs: "mixed" | "brk"
  \*   class     ELF class byte of the file `exec` names, the image execvp
  \*             loads: 1 (32-bit) | 2 (64-bit)
  \*   listed    every syscall it has entered so far is allow-listed
  \*   traced    its PTRACE_TRACEME request succeeded
  \*   execd     it has called execvp, which closed its descriptors of the
  \*             error pipe
  tracee,
  regs,         \* argument and return registers of the tracee
  pipe_msg,     \* error frame the child wrote to the error pipe
  \* the supervisor, Impl::execute
  pc,
  phase,        \* which wait_for_syscall() call is running: "entry" | "exit"
  status,       \* int status
  syscall_no,
  tracee_is_dead_and_waited,
  vm_size,
  verdict,      \* the returned ExitStat
  time_limit,   \* opts.time_limit
  exe_class,    \* byte 4 of /proc/<cpid>/exe when the probe reads it: the
                \* image of the child at its initial stop, before execvp
  \* the timer
  timer,        \* "unset" | "inert" | "armed" | "fired" | "stopped"
  \* history variables
  last,         \* the most recent policy decision
  ncalls,       \* policy decisions made so far
  sample,       \* the last reading of statm in pages, -1 before the first
  run,          \* n: which call of Sandbox::run this is; used: the policy
                \* object of the call before was not as constructed at its end;
                \* stops: calls of timer.stopAndGetRuntime() made in this call
  seen,         \* per bounded-count syscall: on_entry calls made for it
  unchecked,    \* the kernel ran a syscall no on_entry call was made for
  acts,         \* resume and kill requests since the last consumed stop
  \* a call of abspath (filesystem.cc): strings are sequences of characters
  path_arg,     \* the argument `path`
  curr_dir,     \* the argument `curr_dir`
  out,          \* the values returned so far, first call first
  \* a FileDescriptor object (filesystem.h) and the descriptor table of its
  \* process: a record with the fields
  \*   live      the object is constructed and not destroyed
  \*   fd_       its member fd_
  \*   open      the descriptors open in the process
  \*   owned     history: descriptors the object was given and has neither
  \*             closed nor released
  \*   bad_close history: sclose was called for a descriptor that is not open
  fdobj,
  \* the parent's descriptors of the error pipe: rd is pfd[0], wr is pfd[1],
  \* each "none" (not created) | "open" | "closed"
  pfd

policy_vars == <<arch, limited_syscalls, unsuccessful_SYS_brk_counter,
                 error_message, allowed_files>>
tracee_vars == <<tracee, regs, pipe_msg>>
super_vars  == <<pc, phase, status, syscall_no, tracee_is_dead_and_waited,
                 vm_size, verdict, time_limit, exe_class>>
hist_vars   == <<last, ncalls, sample, run, seen, unchecked, acts>>
file_vars   == <<path_arg, curr_dir, out, fdobj>>
fs_vars     == <<file_vars, pfd>>
vars == <<policy_vars, tracee_vars, super_vars, timer, hist_vars, fs_vars>>

(***************************************************************************)
(* The policy: Sandbox::DefaultCallback.                                   *)
(***************************************************************************)
\* std::lower_bound over list[first .. first + count - 1]
RECURSIVE lower_bound(_, _, _, _)
lower_bound(list, x, first, count) ==
  IF count <= 0 THEN first
  ELSE LET step == count \div 2
           it   == first + step
       IN  IF list[it] < x
             THEN lower_bound(list, x, it + 1, count - (step + 1))
             ELSE lower_bound(list, x, first, step)

binary_search(list, x) ==
  LET i == lower_bound(list, x, 1, Len(list))
  IN  i <= Len(list) /\ ~(x < list[i])

\* both lists taken as empty
isSyscallIn_none(a, syscall) == FALSE

\* the architecture test inverted
isSyscallIn_swapped(a, syscall) ==
  IF a = ARCH_x86_64
    THEN binary_search(allowed_syscalls_i386, syscall)
    ELSE binary_search(allowed_syscalls_x86_64, syscall)

isSyscallIn(a, syscall) ==
  IF a = ARCH_i386
    THEN binary_search(allowed_syscalls_i386, syscall)
    ELSE binary_search(allowed_syscalls_x86_64, syscall)

\* index of the first Pair of limited_syscalls[a] for `syscall`, 0 if none
LimitedIndex(a, lim, syscall) ==
  LET hits == {i \in 1..Len(lim[a + 1]) : lim[a + 1][i].syscall = syscall}
  IN  IF hits = {} THEN 0 ELSE CHOOSE i \in hits : \A j \in hits : i <= j

\* open(2): the pathname is argument 1
isSysOpenAllowed(r, files) ==
  LET path == ReadString(r.arg1)
  IN  IF path = Unreadable
        THEN [allow |-> FALSE, regs |-> r]
      ELSE IF \E i \in 1..Len(files) : files[i] = path
        THEN [allow |-> TRUE, regs |-> r]
      ELSE [allow |-> TRUE, regs |-> [r EXCEPT !.arg1 = 0]]

\* lseek(2): the descriptor is argument 1; a seek on stdin, stdout or stderr
\* is made to fail by replacing the descriptor with -1
isSysLseekAllowed(r) ==
  IF r.arg1 \in {0, 1, 2}
    THEN [allow |-> TRUE, regs |-> [r EXCEPT !.arg1 = -1]]
    ELSE [allow |-> TRUE, regs |-> r]

\* tgkill(2): tgid is argument 1, tid is argument 2
isSysTgkillAllowed(pid, r, msg) ==
  IF r.arg1 = pid /\ r.arg2 = pid
    THEN [allow |-> TRUE, msg |-> msg]
    ELSE [allow |-> FALSE, msg |-> "tgkill to foreign process"]

\* return (--i.limit >= 0), given the limit before the call
\* post-decrement instead of pre-decrement
LimitedDecision_post(limit) == limit >= 0

LimitedDecision(limit) == limit - 1 >= 0

\* the table read with the other architecture's index
isOpenNo_swapped(a, syscall) == syscall = sys_open[2 - a]

isOpenNo(a, syscall) == syscall = sys_open[a + 1]

\* the architecture test of the _llseek clause dropped
isLseekNo_anyarch(a, syscall) ==
  syscall = sys_lseek[a + 1] \/ syscall = sys_llseek_i386

\* the _llseek clause dropped
isLseekNo_nollseek(a, syscall) == syscall = sys_lseek[a + 1]

isLseekNo(a, syscall) ==
  syscall = sys_lseek[a + 1] \/ (a = ARCH_i386 /\ syscall = sys_llseek_i386)

\* the two architectures' numbers exchanged
isTgkillNo_swapped(a, syscall) == syscall = sys_tgkill[2 - a]

isTgkillNo(a, syscall) == syscall = sys_tgkill[a + 1]

\* the decision and the state it leaves: the policy's counters and message,
\* and the tracee's registers
isSyscallEntryAllowed(a, pid, syscall, lim, msg, r, files) ==
  LET same == [allow |-> TRUE, limited |-> lim, msg |-> msg, regs |-> r]
      i    == LimitedIndex(a, lim, syscall)
  IN  IF isSyscallIn(a, syscall) THEN same
      ELSE IF i # 0 THEN
        [same EXCEPT !.limited = [lim EXCEPT ![a + 1][i].limit = @ - 1],
                     !.allow   = LimitedDecision(lim[a + 1][i].limit)]
      ELSE IF isOpenNo(a, syscall) THEN
        LET o == isSysOpenAllowed(r, files)
        IN  [same EXCEPT !.allow = o.allow, !.regs = o.regs]
      ELSE IF isLseekNo(a, syscall) THEN
        LET l == isSysLseekAllowed(r)
        IN  [same EXCEPT !.allow = l.allow, !.regs = l.regs]
      ELSE IF isTgkillNo(a, syscall) THEN
        LET t == isSysTgkillAllowed(pid, r, msg)
        IN  [same EXCEPT !.allow = t.allow, !.msg = t.msg]
      ELSE [same EXCEPT !.allow = FALSE]

\* the same checks made in the opposite order
isSyscallEntryAllowed_reversed(a, pid, syscall, lim, msg, r, files) ==
  LET same == [allow |-> TRUE, limited |-> lim, msg |-> msg, regs |-> r]
      i    == LimitedIndex(a, lim, syscall)
  IN  IF isTgkillNo(a, syscall) THEN
        LET t == isSysTgkillAllowed(pid, r, msg)
        IN  [same EXCEPT !.allow = t.allow, !.msg = t.msg]
      ELSE IF isLseekNo(a, syscall) THEN
        LET l == isSysLseekAllowed(r)
        IN  [same EXCEPT !.allow = l.allow, !.regs = l.regs]
      ELSE IF isOpenNo(a, syscall) THEN
        LET o == isSysOpenAllowed(r, files)
        IN  [same EXCEPT !.allow = o.allow, !.regs = o.regs]
      ELSE IF i # 0 THEN
        [same EXCEPT !.limited = [lim EXCEPT ![a + 1][i].limit = @ - 1],
                     !.allow   = LimitedDecision(lim[a + 1][i].limit)]
      ELSE IF isSyscallIn(a, syscall) THEN same
      ELSE [same EXCEPT !.allow = FALSE]

\* whether the decision for `syscall` reads the tracee's registers or memory
EntryReadsTracee(a, lim, syscall) ==
  /\ ~isSyscallIn(a, syscall)
  /\ LimitedIndex(a, lim, syscall) = 0
  /\ isOpenNo(a, syscall) \/ isLseekNo(a, syscall) \/ isTgkillNo(a, syscall)

\* every number that is bounded-count under some architecture
LimitedNumbers ==
  UNION { {limited_syscalls_initial[a][i].syscall :
             i \in 1..Len(limited_syscalls_initial[a])} : a \in {1, 2} }

\* the limit reached one exit early
isSyscallExitAllowed_early(a, syscall, cnt, msg, r) ==
  IF syscall # sys_brk[a + 1] THEN [allow |-> TRUE, cnt |-> cnt, msg |-> msg]
  ELSE IF r.ret # r.arg1 THEN [allow |-> TRUE, cnt |-> cnt, msg |-> msg]
  ELSE IF cnt + 1 >= UNSUCCESSFUL_SYS_BRK_LIMIT
    THEN [allow |-> FALSE, cnt |-> cnt + 1, msg |-> "brk failed too many times"]
    ELSE [allow |-> TRUE, cnt |-> cnt + 1, msg |-> msg]

\* brk(2) exit: an exit whose return value equals the requested break counts
\* as unsuccessful
isSyscallExitAllowed(a, syscall, cnt, msg, r) ==
  IF syscall # sys_brk[a + 1] THEN [allow |-> TRUE, cnt |-> cnt, msg |-> msg]
  ELSE IF r.ret # r.arg1 THEN [allow |-> TRUE, cnt |-> cnt, msg |-> msg]
  ELSE IF cnt + 1 > UNSUCCESSFUL_SYS_BRK_LIMIT
    THEN [allow |-> FALSE, cnt |-> cnt + 1, msg |-> "brk failed too many times"]
    ELSE [allow |-> TRUE, cnt |-> cnt + 1, msg |-> msg]

NoDecision ==
  [kind |-> "none", syscall |-> -1, allow |-> TRUE, changed |-> TRUE,
   regs_before |-> NoRegs, limited_before |-> limited_syscalls_initial,
   msg_before |-> "", brk_before |-> 0]

\* the record of an on_entry call made in the current state
EntryDecision(syscall, r, res) ==
  [kind |-> "entry", syscall |-> syscall, allow |-> res.allow,
   changed |-> (res.limited # limited_syscalls \/ res.msg # error_message),
   regs_before |-> r, limited_before |-> limited_syscalls,
   msg_before |-> error_message,
   brk_before |-> unsuccessful_SYS_brk_counter]

CountSeen(syscall) ==
  IF syscall \in LimitedNumbers
    THEN [seen EXCEPT ![syscall] = @ + 1]
    ELSE seen

(***************************************************************************)
(* SpecPolicy: a freshly constructed DefaultCallback whose architecture    *)
(* tag has been set, asked about syscall entries.  The registers that the  *)
(* argument checks read are drawn from ArgValues; the other decisions read *)
(* no register.  A history is a run of calls that change the object,       *)
(* followed by one arbitrary call.                                         *)
(***************************************************************************)
PolicyArgs(syscall) ==
  IF syscall \in {sys_tgkill[1], sys_tgkill[2]}
    THEN {<<a, b>> : a \in {cpid, OtherPid}, b \in {cpid, OtherPid}}
  ELSE IF syscall \in {sys_open[1], sys_open[2], sys_lseek[1], sys_lseek[2],
                       sys_llseek_i386}
    THEN {<<a, 0>> : a \in ArgValues}
  ELSE {<<0, 0>>}

InitPolicy ==
  /\ arch \in {ARCH_i386, ARCH_x86_64}
  /\ limited_syscalls = limited_syscalls_initial
  /\ unsuccessful_SYS_brk_counter = 0
  /\ error_message = ""
  /\ allowed_files \in {<< >>, <<"/etc/hostname">>}
  /\ tracee = [state |-> "stopped", stop |-> "entry",
               stopsig |-> "SYSCALL_TRAP", reported |-> TRUE,
               mode |-> "syscall", sysno |-> -1, status |-> NoStatus,
               prog |-> "mixed", class |-> arch + 1, listed |-> TRUE,
               traced |-> TRUE, execd |-> TRUE]
  /\ regs = NoRegs /\ pipe_msg = ""
  /\ pc = "on_entry" /\ phase = "entry" /\ status = NoStatus
  /\ syscall_no = -1
  /\ tracee_is_dead_and_waited = FALSE /\ vm_size = 0
  /\ verdict = NoVerdict /\ time_limit = 0 /\ exe_class = arch + 1
  /\ timer = "inert"
  /\ last = NoDecision /\ ncalls = 0 /\ sample = -1
  /\ run = [n |-> 1, used |-> FALSE, stops |-> 0]
  /\ path_arg = << >> /\ curr_dir = <<"/">> /\ out = << >>
  /\ pfd = [rd |-> "none", wr |-> "none"]
  /\ fdobj = NoObject
  /\ seen = [n \in LimitedNumbers |-> 0]
  /\ unchecked = FALSE /\ acts = 0

PolicyEntry(syscall, a1, a2) ==
  /\ ncalls < MaxCalls
  /\ last.changed
  /\ LET r   == [arg1 |-> a1, arg2 |-> a2, ret |-> 0]
         res == isSyscallEntryAllowed(arch, cpid, syscall, limited_syscalls,
                                      error_message, r, allowed_files)
     IN  /\ limited_syscalls' = res.limited
         /\ error_message' = res.msg
         /\ regs' = res.regs
         /\ last' = EntryDecision(syscall, r, res)
  /\ tracee' = [tracee EXCEPT !.sysno = syscall]
  /\ syscall_no' = syscall
  /\ ncalls' = ncalls + 1
  /\ UNCHANGED <<sample, run, fs_vars>>
  /\ seen' = CountSeen(syscall)
  /\ UNCHANGED <<arch, unsuccessful_SYS_brk_counter, allowed_files>>
  /\ UNCHANGED pipe_msg
  /\ UNCHANGED <<pc, phase, status, tracee_is_dead_and_waited, vm_size,
                 verdict, time_limit, exe_class>>
  /\ UNCHANGED <<timer, unchecked, acts>>

NextPolicy ==
  \E syscall \in 0..MaxSyscallNo :
    \E a \in PolicyArgs(syscall) : PolicyEntry(syscall, a[1], a[2])

SpecPolicy == InitPolicy /\ [][NextPolicy]_vars

(***************************************************************************)
(* SpecRuns: Sandbox::run called up to MaxRuns times, one call after the   *)
(* other, each with the default argument for `func`.                       *)
(***************************************************************************)
\* lines 109-132: a DefaultCallback as its member initialisers leave it
DefaultCallback_new ==
  [limited |-> limited_syscalls_initial, brk |-> 0, msg |-> ""]

\* one object kept for all calls
run_func_shared(old) == old

\* line 355, `Callback&& func = Callback()`, and line 544, `Callback func`:
\* the object execute works on, given the one the call before worked on
run_func(old) == DefaultCallback_new

\* the call before has returned; Sandbox::run is called again
NewRun ==
  /\ run.n < MaxRuns
  /\ ncalls > 0
  /\ LET old  == [limited |-> limited_syscalls,
                  brk |-> unsuccessful_SYS_brk_counter,
                  msg |-> error_message]
         func == run_func(old)
     IN  /\ limited_syscalls' = func.limited
         /\ unsuccessful_SYS_brk_counter' = func.brk
         /\ error_message' = func.msg
         /\ run' = [n |-> run.n + 1, used |-> (old # DefaultCallback_new),
                    stops |-> 0]
  /\ regs' = NoRegs
  /\ tracee' = [tracee EXCEPT !.sysno = -1]
  /\ syscall_no' = -1
  /\ last' = NoDecision /\ ncalls' = 0
  /\ seen' = [n \in LimitedNumbers |-> 0]
  /\ UNCHANGED <<arch, allowed_files, pipe_msg, pc, phase, status,
                 tracee_is_dead_and_waited, vm_size, verdict, time_limit,
                 exe_class, timer, sample, unchecked, acts, fs_vars>>

NextRuns == NextPolicy \/ NewRun

\* the default callback has no allowed files (line 311)
InitRuns == InitPolicy /\ allowed_files = << >>

SpecRuns == InitRuns /\ [][NextRuns]_vars

(***************************************************************************)
(* The kernel: ptrace stops, resume requests, kill and waitpid.            *)
(***************************************************************************)
Alive(tr) == tr.state \in {"setup", "running", "insys", "stopped"}

\* a ptrace request other than PTRACE_TRACEME succeeds only on a tracee
\* that is in a ptrace stop; otherwise it fails with ESRCH
Controllable(tr) == tr.state = "stopped"

\* signals whose delivery terminates the tracee
Fatal(sig) == sig \in {"SIGSEGV"}

Stopped(tr, kind, sig) ==
  [tr EXCEPT !.state = "stopped", !.stop = kind, !.stopsig = sig,
             !.reported = FALSE]

Terminated(tr, st) ==
  [tr EXCEPT !.state = "zombie", !.stop = "none", !.stopsig = "",
             !.reported = FALSE, !.sysno = -1, !.status = st]

\* kill(cpid, SIGKILL)
Kill(tr) ==
  IF Alive(tr) THEN Terminated(tr, [kind |-> "signaled", val |-> "SIGKILL"])
  ELSE tr

\* PTRACE_SYSCALL (mode "syscall") or PTRACE_CONT (mode "cont") delivering
\* sig ("" for none); the child resumed from its initial stop calls execvp
Resume(tr, mode, sig) ==
  IF ~Controllable(tr) THEN tr
  ELSE IF tr.stop = "signal" /\ Fatal(sig)
    THEN Terminated(tr, [kind |-> "signaled", val |-> sig])
  ELSE [tr EXCEPT !.state = IF tr.stop = "entry" THEN "insys" ELSE "running",
                  !.stop = "none", !.stopsig = "", !.reported = FALSE,
                  !.mode = mode, !.execd = TRUE,
                  !.sysno = IF tr.stop = "entry" THEN tr.sysno ELSE -1]

\* the registers once the tracee runs user code again
RegsAfterResume(tr, r) ==
  IF Controllable(tr) /\ tr.stop # "entry" THEN NoRegs ELSE r

\* waitpid(cpid, &status, 0) returns when the tracee has a stop not yet
\* reported or has terminated (ECHILD once it has been reaped)
WaitReturns(tr) ==
  \/ tr.state = "stopped" /\ ~tr.reported
  \/ tr.state \in {"zombie", "reaped"}

WaitStatus(tr, old) ==
  IF tr.state = "stopped" THEN [kind |-> "stopped", val |-> tr.stopsig]
  ELSE IF tr.state = "zombie" THEN tr.status
  ELSE old

WaitTracee(tr) ==
  IF tr.state = "stopped" THEN [tr EXCEPT !.reported = TRUE]
  ELSE IF tr.state = "zombie" THEN [tr EXCEPT !.state = "reaped"]
  ELSE tr

WIFSTOPPED(st) == st.kind = "stopped"
WIFEXITED(st) == st.kind = "exited"
WIFSIGNALED(st) == st.kind = "signaled"

(***************************************************************************)
(* The tracee.  Its ABI is that of the program it execs.  A "mixed" program *)
(* makes up to MaxCalls of the calls of TraceeCalls and receives the       *)
(* signals of Signals; a "brk" program calls brk any number of times and   *)
(* may exit.                                                               *)
(***************************************************************************)
Programs == {"mixed", "brk"}

Signals == {"SIGSTOP", "SIGTRAP", "SIGCONT", "SIGUSR1", "SIGSEGV"}

Abi == IF tracee.class = 1 THEN ARCH_i386 ELSE ARCH_x86_64

sys_read == <<3, 0>>
sys_execve == <<11, 59>>
sys_socket == <<102, 41>>
sys_exit_group == <<252, 231>>
\* a number that is in no list and has no name (unused under i386)
sys_unused_i386 == 222

Call(no, a1, a2) == [no |-> no, arg1 |-> a1, arg2 |-> a2]

TraceeCalls(a) ==
  {Call(sys_read[a + 1], 0, 0), Call(sys_execve[a + 1], 0, 0),
   Call(sys_socket[a + 1], 0, 0), Call(sys_exit_group[a + 1], 0, 0),
   Call(sys_brk[a + 1], 1, 0)}
  \cup {Call(sys_open[a + 1], p, 0) : p \in {0, 3, 4}}
  \cup {Call(sys_lseek[a + 1], fd, 0) : fd \in {0, 3}}
  \cup {Call(sys_tgkill[a + 1], t[1], t[2]) :
          t \in {<<cpid, cpid>>, <<OtherPid, cpid>>, <<cpid, OtherPid>>}}
  \cup (IF a = ARCH_i386
          THEN {Call(sys_llseek_i386, 0, 0), Call(sys_unused_i386, 0, 0)}
          ELSE {})

\* the number is in the allow list of the tracee's architecture
AllowListed(a, no) ==
  LET list == IF a = ARCH_i386 THEN allowed_syscalls_i386
                               ELSE allowed_syscalls_x86_64
  IN  \E i \in DOMAIN list : list[i] = no

ProgramCalls(prog, a) ==
  IF prog = "mixed" THEN TraceeCalls(a)
  ELSE {Call(sys_brk[a + 1], 1, 0), Call(sys_exit_group[a + 1], 0, 0)}

\* return values the kernel may give the syscall in progress
ReturnValues(a, no, r) ==
  IF no = sys_brk[a + 1] THEN {r.arg1, 0}
  ELSE IF no = sys_open[a + 1]
    THEN {IF ReadString(r.arg1) = Unreadable THEN -14 ELSE 3}
  ELSE IF no = sys_lseek[a + 1] /\ r.arg1 = -1 THEN {-9}
  ELSE {0}

\* the frames a failing bring-up step leaves in the error pipe: a step of
\* runChild, and the attach callback of lines 560-563
SetupFrames == {"chdir() failed", "ptrace(PTRACE_TRACEME)"}

\* the child goes on to execvp after reporting
sendErrorMessage_returns(tr) == [tr EXCEPT !.state = "running"]

\* the child after sendErrorMessage: it has exited with status -1
sendErrorMessage(tr) == Terminated(tr, [kind |-> "exited", val |-> "255"])

\* the child fails a setup step, reports it and exits, or is killed by a
\* signal before it could stop
ChildSetupFails ==
  /\ tracee.state = "setup"
  /\ \E killed \in BOOLEAN :
       IF killed
         THEN /\ tracee' = Terminated(tracee, [kind |-> "signaled",
                                               val |-> "SIGSEGV"])
              /\ pipe_msg' = ""
         ELSE /\ tracee' = sendErrorMessage(tracee)
              /\ pipe_msg' \in SetupFrames
  /\ UNCHANGED <<policy_vars, regs, super_vars, timer, hist_vars, fs_vars>>

\* PTRACE_TRACEME succeeded and the child stops itself before execvp
ChildStops ==
  /\ tracee.state = "setup"
  /\ tracee' = Stopped([tracee EXCEPT !.traced = TRUE], "signal", "SIGSTOP")
  /\ UNCHANGED <<policy_vars, regs, pipe_msg, super_vars, timer, hist_vars, fs_vars>>

\* the tracee enters a syscall: a syscall-entry stop if it was resumed by
\* PTRACE_SYSCALL, otherwise the kernel runs the call at once
TraceeEnters(c) ==
  /\ tracee.state = "running"
  /\ tracee.prog = "mixed" => ncalls < MaxCalls
  /\ ncalls' = IF tracee.prog = "mixed" THEN ncalls + 1 ELSE ncalls
  /\ UNCHANGED <<sample, run, fs_vars>>
  /\ regs' = [arg1 |-> c.arg1, arg2 |-> c.arg2, ret |-> 0]
  /\ LET entered == [tracee EXCEPT !.sysno = c.no,
                                   !.listed = @ /\ AllowListed(Abi, c.no)]
     IN  IF tracee.mode = "syscall"
           THEN /\ tracee' = Stopped(entered, "entry", "SYSCALL_TRAP")
                /\ UNCHANGED unchecked
           ELSE /\ tracee' = [entered EXCEPT !.state = "insys"]
                /\ unchecked' = TRUE
  /\ UNCHANGED <<policy_vars, pipe_msg, super_vars, timer, last, seen, acts>>

\* the kernel finishes the syscall in progress
TraceeReturns ==
  /\ tracee.state = "insys"
  /\ IF tracee.sysno = sys_exit_group[Abi + 1]
       THEN /\ tracee' = Terminated(tracee, [kind |-> "exited", val |-> "0"])
            /\ regs' = NoRegs
       ELSE \E rv \in ReturnValues(Abi, tracee.sysno, regs) :
              IF tracee.mode = "syscall"
                THEN /\ tracee' = Stopped(tracee, "exit", "SYSCALL_TRAP")
                     /\ regs' = [regs EXCEPT !.ret = rv]
                ELSE /\ tracee' = [tracee EXCEPT !.state = "running",
                                                 !.sysno = -1]
                     /\ regs' = NoRegs
  /\ UNCHANGED <<policy_vars, pipe_msg, super_vars, timer, hist_vars, fs_vars>>

\* a signal other than SIGKILL reaches the tracee: signal-delivery stop
TraceeSignalled(sig) ==
  /\ tracee.state = "running"
  /\ tracee.prog = "mixed"
  /\ tracee' = Stopped(tracee, "signal", sig)
  /\ UNCHANGED <<policy_vars, regs, pipe_msg, super_vars, timer, hist_vars, fs_vars>>

(***************************************************************************)
(* The timer (Spawner's Timer).                                            *)
(***************************************************************************)
\* armed whatever the limit
TimerStarted_always(limit) == "armed"

TimerStarted(limit) == IF limit = 0 THEN "inert" ELSE "armed"

\* stopAndGetRuntime() and the destructor cancel a timer that is armed
TimerStopped(t) == IF t = "armed" THEN "stopped" ELSE t

TimerFires ==
  /\ timer = "armed"
  /\ timer' = "fired"
  /\ tracee' = Kill(tracee)
  /\ UNCHANGED <<policy_vars, regs, pipe_msg, super_vars, hist_vars, fs_vars>>

(***************************************************************************)
(* The supervisor: Sandbox::Impl<Callback, Timer>::execute, from the       *)
(* parent's return from fork().                                            *)
(***************************************************************************)
PAGESIZE == 4096

\* Spawner::receiveErrorMessage: the frame read from the error pipe
receiveErrorMessage(st, pipe) == pipe

\* the entries of the syscall name tables for the calls a tracee makes here
x86_syscall_name(no) ==
  CASE no = 3 -> "read" [] no = 5 -> "open" [] no = 11 -> "execve"
    [] no = 19 -> "lseek" [] no = 45 -> "brk" [] no = 102 -> "socket"
    [] no = 140 -> "_llseek" [] no = 252 -> "exit_group"
    [] no = 270 -> "tgkill" [] OTHER -> ""

x86_64_syscall_name(no) ==
  CASE no = 0 -> "read" [] no = 2 -> "open" [] no = 8 -> "lseek"
    [] no = 12 -> "brk" [] no = 41 -> "socket" [] no = 59 -> "execve"
    [] no = 231 -> "exit_group" [] no = 234 -> "tgkill" [] OTHER -> ""

Digits == <<"0", "1", "2", "3", "4", "5", "6", "7", "8", "9">>

RECURSIVE toStr(_)
toStr(n) ==
  IF n < 0 THEN "-" \o toStr(0 - n)
  ELSE IF n < 10 THEN Digits[n + 1]
  ELSE toStr(n \div 10) \o Digits[(n % 10) + 1]

\* lines 793-803
DenyMessage_raw(a, msg, no) == msg

\* the name looked up in the other architecture's table
DenyMessage_otherarch(a, msg, no) ==
  IF msg # "" THEN msg
  ELSE LET syscall_name == IF a = ARCH_i386 THEN x86_64_syscall_name(no)
                                            ELSE x86_syscall_name(no)
       IN  IF syscall_name = "" THEN "forbidden syscall " \o toStr(no)
           ELSE "forbidden syscall " \o toStr(no) \o ": " \o syscall_name
                  \o "()"

DenyMessage(a, msg, no) ==
  IF msg # "" THEN msg
  ELSE LET syscall_name == IF a = ARCH_i386 THEN x86_syscall_name(no)
                                            ELSE x86_64_syscall_name(no)
       IN  IF syscall_name = "" THEN "forbidden syscall " \o toStr(no)
           ELSE "forbidden syscall " \o toStr(no) \o ": " \o syscall_name
                  \o "()"

\* the syscalls after whose exit /proc/<cpid>/statm is read
\* every exit sampled
ChangesVm_any(a, no) == TRUE

ChangesVm(a, no) ==
  IF a = ARCH_i386 THEN no \in {45, 90, 163, 192} ELSE no \in {9, 12, 25}

Max(x, y) == IF x >= y THEN x ELSE y

Bump(n) == IF n < 3 THEN n + 1 ELSE n

\* execute called on any program
InitExec ==
  /\ arch = -1
  /\ limited_syscalls = limited_syscalls_initial
  /\ unsuccessful_SYS_brk_counter = 0
  /\ error_message = ""
  /\ allowed_files = << >>
  /\ \E prog \in Programs, class \in {1, 2} :
       tracee = [state |-> "setup", stop |-> "none", stopsig |-> "",
                 reported |-> FALSE, mode |-> "syscall", sysno |-> -1,
                 status |-> NoStatus, prog |-> prog, class |-> class,
                 listed |-> TRUE, traced |-> FALSE, execd |-> FALSE]
  /\ regs = NoRegs /\ pipe_msg = ""
  /\ pc = "initial_wait" /\ phase = "entry" /\ status = NoStatus
  /\ syscall_no = -1
  /\ tracee_is_dead_and_waited = FALSE /\ vm_size = 0
  /\ verdict = NoVerdict
  /\ time_limit \in {0, 1}
  /\ exe_class \in {1, 2, 3}
  /\ timer = "unset"
  /\ last = NoDecision /\ ncalls = 0 /\ sample = -1
  /\ run = [n |-> 1, used |-> FALSE, stops |-> 0]
  /\ path_arg = << >> /\ curr_dir = <<"/">> /\ out = << >>
  /\ pfd = [rd |-> "open", wr |-> "closed"]
  /\ fdobj = NoObject
  /\ seen = [n \in LimitedNumbers |-> 0]
  /\ unchecked = FALSE /\ acts = 0

\* the program is of the class of the image the probe reads
SameClass == tracee.class = IF exe_class = 1 THEN 1 ELSE 2

\* execute called on a program built like the image of the child at its
\* initial stop
Init == InitExec /\ SameClass

\* ~Closer (filesystem.h 592-595) for close_pipe0: execute is left
close_pipe0(p) == [p EXCEPT !.rd = IF @ = "open" THEN "closed" ELSE @]

\* only an exit counts
SetupFailed_exited(st) == WIFEXITED(st)

\* line 573
SetupFailed(st) == WIFEXITED(st) \/ WIFSIGNALED(st)

\* lines 569-574
InitialWait ==
  /\ pc = "initial_wait"
  /\ WaitReturns(tracee)
  /\ LET st == WaitStatus(tracee, status)
     IN  /\ status' = st
         /\ tracee' = WaitTracee(tracee)
         /\ IF SetupFailed(st)
              THEN /\ pc' = "returned"
                   /\ verdict' = [how |-> "setup", status |-> st,
                                  runtime |-> "0", vm_peak |-> 0,
                                  message |-> receiveErrorMessage(st, pipe_msg)]
              ELSE /\ pc' = "setoptions"
                   /\ UNCHANGED verdict
  /\ acts' = 0
  /\ UNCHANGED <<policy_vars, regs, pipe_msg, phase, syscall_no,
                 tracee_is_dead_and_waited, vm_size, time_limit, exe_class,
                 timer, last, ncalls, sample, run, file_vars, seen, unchecked>>
  /\ pfd' = IF pc' \in {"returned", "thrown"} THEN close_pipe0(pfd) ELSE pfd

\* lines 590-595
SetOptions ==
  /\ pc = "setoptions"
  /\ pc' = IF Controllable(tracee) THEN "detect" ELSE "unwind"
  /\ UNCHANGED <<policy_vars, tracee_vars, phase, status, syscall_no,
                 tracee_is_dead_and_waited, vm_size, verdict, time_limit,
                 exe_class, timer, hist_vars, fs_vars>>

\* every class byte but 1 taken for a 64-bit image
detectArchitecture_lenient(class) ==
  IF class = 1 THEN ARCH_i386 ELSE ARCH_x86_64

\* process.cc detectArchitecture on a file that could be opened and read;
\* -1 stands for THROW("Unsupported architecture")
detectArchitecture(class) ==
  IF class = 1 THEN ARCH_i386
  ELSE IF class = 2 THEN ARCH_x86_64
  ELSE -1

\* the tag left as it was
detectTraceeArchitecture_keep(old, class) == old

\* sandbox.h lines 64-66: arch = ::detectArchitecture(pid)
detectTraceeArchitecture(old, class) == detectArchitecture(class)

\* line 597; a probe that throws leaves arch as it was.  io_ok: the open,
\* lseek and read of process.cc lines 129-138 all succeeded
DetectArchitecture ==
  /\ pc = "detect"
  /\ \E io_ok \in BOOLEAN :
       IF io_ok /\ Alive(tracee) /\ detectArchitecture(exe_class) # -1
         THEN /\ arch' = detectTraceeArchitecture(arch, exe_class)
              /\ pc' = "open_statm"
         ELSE arch' = arch /\ pc' = "unwind"
  /\ UNCHANGED <<limited_syscalls, unsuccessful_SYS_brk_counter,
                 error_message, allowed_files, tracee_vars, phase, status,
                 syscall_no, tracee_is_dead_and_waited, vm_size, verdict,
                 time_limit, exe_class, timer, hist_vars, fs_vars>>

\* lines 599-603
OpenStatm ==
  /\ pc = "open_statm"
  /\ \E ok \in BOOLEAN : pc' = IF ok THEN "timer_start" ELSE "unwind"
  /\ UNCHANGED <<policy_vars, tracee_vars, phase, status, syscall_no,
                 tracee_is_dead_and_waited, vm_size, verdict, time_limit,
                 exe_class, timer, hist_vars, fs_vars>>

\* lines 626-627
TimerStart ==
  /\ pc = "timer_start"
  /\ timer' = TimerStarted(time_limit)
  /\ pc' = "ptrace_syscall"
  /\ phase' = "entry"
  /\ UNCHANGED <<policy_vars, tracee_vars, status, syscall_no,
                 tracee_is_dead_and_waited, vm_size, verdict, time_limit,
                 exe_class, hist_vars, fs_vars>>

\* the kernel starts a syscall from its entry stop without an Allow for it
StartsUnchecked(tr) ==
  /\ Controllable(tr) /\ tr.stop = "entry"
  /\ ~(last.kind = "entry" /\ last.syscall = tr.sysno /\ last.allow)

\* line 631
PtraceSyscall ==
  /\ pc = "ptrace_syscall"
  /\ tracee' = Resume(tracee, "syscall", "")
  /\ regs' = RegsAfterResume(tracee, regs)
  /\ unchecked' = (unchecked \/ StartsUnchecked(tracee))
  /\ acts' = Bump(acts)
  /\ pc' = "waitpid"
  /\ UNCHANGED <<policy_vars, pipe_msg, phase, status, syscall_no,
                 tracee_is_dead_and_waited, vm_size, verdict, time_limit,
                 exe_class, timer, last, ncalls, sample, run, fs_vars, seen>>

\* a terminal status is not looked at: the loop goes round again
AfterWait_nodeath(st, ph) ==
  IF WIFSTOPPED(st) THEN
    IF st.val = "SYSCALL_TRAP" THEN (IF ph = "entry" THEN "peek" ELSE "vm_sample")
    ELSE IF st.val \in {"SIGSTOP", "SIGTRAP", "SIGCONT"} THEN "ptrace_syscall"
    ELSE "ptrace_cont"
  ELSE "ptrace_syscall"

\* a death seen while waiting for the exit is handled like the exit stop
AfterWait_exitdeath(st, ph) ==
  IF WIFSTOPPED(st) THEN
    IF st.val = "SYSCALL_TRAP" THEN (IF ph = "entry" THEN "peek" ELSE "vm_sample")
    ELSE IF st.val \in {"SIGSTOP", "SIGTRAP", "SIGCONT"} THEN "ptrace_syscall"
    ELSE "ptrace_cont"
  ELSE IF WIFEXITED(st) \/ WIFSIGNALED(st)
    THEN (IF ph = "entry" THEN "exit_normally" ELSE "vm_sample")
  ELSE "ptrace_syscall"

\* where wait_for_syscall() goes with the status waitpid gave it
AfterWait(st, ph) ==
  IF WIFSTOPPED(st) THEN
    IF st.val = "SYSCALL_TRAP" THEN (IF ph = "entry" THEN "peek" ELSE "vm_sample")
    ELSE IF st.val \in {"SIGSTOP", "SIGTRAP", "SIGCONT"} THEN "ptrace_syscall"
    ELSE "ptrace_cont"
  ELSE IF WIFEXITED(st) \/ WIFSIGNALED(st) THEN "exit_normally"
  ELSE "ptrace_syscall"

\* lines 634-654
Waitpid ==
  /\ pc = "waitpid"
  /\ WaitReturns(tracee)
  /\ LET st == WaitStatus(tracee, status)
     IN  /\ status' = st
         /\ tracee' = WaitTracee(tracee)
         /\ pc' = AfterWait(st, phase)
         /\ tracee_is_dead_and_waited' =
              (tracee_is_dead_and_waited
                 \/ (~WIFSTOPPED(st) /\ (WIFEXITED(st) \/ WIFSIGNALED(st))))
         /\ acts' = IF tracee.state = "stopped" THEN 0 ELSE acts
  /\ UNCHANGED <<policy_vars, regs, pipe_msg, phase, syscall_no, vm_size,
                 verdict, time_limit, exe_class, timer, last, ncalls, sample, run, fs_vars, seen,
                 unchecked>>

\* line 648, then back to the head of the loop in wait_for_syscall
PtraceCont ==
  /\ pc = "ptrace_cont"
  /\ tracee' = Resume(tracee, "cont", status.val)
  /\ regs' = RegsAfterResume(tracee, regs)
  /\ unchecked' = (unchecked \/ StartsUnchecked(tracee))
  /\ acts' = Bump(acts)
  /\ pc' = "ptrace_syscall"
  /\ UNCHANGED <<policy_vars, pipe_msg, phase, status, syscall_no,
                 tracee_is_dead_and_waited, vm_size, verdict, time_limit,
                 exe_class, timer, last, ncalls, sample, run, fs_vars, seen>>

\* lines 673-685
PeekSyscallNo ==
  /\ pc = "peek"
  /\ IF Controllable(tracee)
       THEN syscall_no' = tracee.sysno /\ pc' = "on_entry"
       ELSE syscall_no' = -1 /\ pc' = "catch"
  /\ UNCHANGED <<policy_vars, tracee_vars, phase, status,
                 tracee_is_dead_and_waited, vm_size, verdict, time_limit,
                 exe_class, timer, hist_vars, fs_vars>>

\* the exit check made at once, without waiting for the syscall to return
on_entry_next_nowait(allow) == IF allow THEN "on_exit" ELSE "deny_timer"

\* the answer not looked at: the tracee is resumed
on_entry_next_resume(allow) == "ptrace_syscall"

\* lines 717-719 and 780: where execute goes with the answer of on_entry
\* the kill path entered after its first statement
on_entry_next_nostop(allow) == IF allow THEN "ptrace_syscall" ELSE "deny_kill"

on_entry_next(allow) == IF allow THEN "ptrace_syscall" ELSE "deny_timer"

\* line 717
OnEntry ==
  /\ pc = "on_entry"
  /\ IF EntryReadsTracee(arch, limited_syscalls, syscall_no)
          /\ ~Controllable(tracee)
       THEN /\ pc' = "catch"
            /\ UNCHANGED <<limited_syscalls, error_message, regs, last, seen,
                           phase>>
       ELSE LET res == isSyscallEntryAllowed(arch, cpid, syscall_no,
                         limited_syscalls, error_message, regs, allowed_files)
            IN  /\ limited_syscalls' = res.limited
                /\ error_message' = res.msg
                /\ regs' = res.regs
                /\ last' = EntryDecision(syscall_no, regs, res)
                /\ seen' = CountSeen(syscall_no)
                /\ pc' = on_entry_next(res.allow)
                /\ phase' = IF res.allow THEN "exit" ELSE phase
  /\ UNCHANGED <<arch, unsuccessful_SYS_brk_counter, allowed_files, tracee,
                 pipe_msg, status, syscall_no, tracee_is_dead_and_waited,
                 vm_size, verdict, time_limit, exe_class, timer, ncalls, sample, run, fs_vars,
                 unchecked, acts>>

\* the reading replaces the peak
vm_size_update_last(vm, pages) == pages

\* line 738
vm_size_update(vm, pages) == Max(vm, pages)

\* lines 724-739; get_vm_size throws when the read fails
VmSample ==
  /\ pc = "vm_sample"
  /\ IF ChangesVm(arch, syscall_no)
       THEN \E pages \in -1..MaxVmPages :
              IF pages = -1
                THEN pc' = "catch" /\ UNCHANGED <<vm_size, sample>>
                ELSE /\ pc' = "on_exit"
                     /\ vm_size' = vm_size_update(vm_size, pages)
                     /\ sample' = pages
       ELSE pc' = "on_exit" /\ UNCHANGED <<vm_size, sample>>
  /\ UNCHANGED <<policy_vars, tracee_vars, phase, status, syscall_no,
                 tracee_is_dead_and_waited, verdict, time_limit, exe_class,
                 timer, last, ncalls, run, fs_vars, seen, unchecked, acts>>

\* lines 741-743
OnExit ==
  /\ pc = "on_exit"
  /\ IF syscall_no = sys_brk[arch + 1] /\ ~Controllable(tracee)
       THEN /\ pc' = "catch"
            /\ UNCHANGED <<unsuccessful_SYS_brk_counter, error_message, last,
                           phase, syscall_no>>
       ELSE LET res == isSyscallExitAllowed(arch, syscall_no,
                         unsuccessful_SYS_brk_counter, error_message, regs)
            IN  /\ unsuccessful_SYS_brk_counter' = res.cnt
                /\ error_message' = res.msg
                /\ IF res.allow
                     THEN /\ pc' = "ptrace_syscall"
                          /\ phase' = "entry"
                          /\ syscall_no' = -1
                          /\ last' = NoDecision
                     ELSE /\ pc' = "deny_timer"
                          /\ last' = [last EXCEPT !.kind = "exit",
                                                  !.allow = FALSE]
                          /\ UNCHANGED <<phase, syscall_no>>
  /\ UNCHANGED <<arch, limited_syscalls, allowed_files, tracee_vars, status,
                 tracee_is_dead_and_waited, vm_size, verdict, time_limit,
                 exe_class, timer, ncalls, sample, run, fs_vars, seen, unchecked, acts>>

\* every caught error thrown again
catch_decision_rethrow(dead, esrch) == "unwind"

\* lines 753-777: rethrow, or kill and report when the probe gave ESRCH
catch_decision(dead, esrch) ==
  IF dead THEN "unwind"
  ELSE IF esrch THEN "catch_kill"
  ELSE "unwind"

\* lines 748-765 and 777
Catch ==
  /\ pc = "catch"
  /\ pc' = catch_decision(tracee_is_dead_and_waited, ~Controllable(tracee))
  /\ UNCHANGED <<policy_vars, tracee_vars, phase, status, syscall_no,
                 tracee_is_dead_and_waited, vm_size, verdict, time_limit,
                 exe_class, timer, hist_vars, fs_vars>>

\* line 766
CatchKill ==
  /\ pc = "catch_kill"
  /\ tracee' = Kill(tracee)
  /\ acts' = Bump(acts)
  /\ pc' = "catch_wait"
  /\ UNCHANGED <<policy_vars, regs, pipe_msg, phase, status, syscall_no,
                 tracee_is_dead_and_waited, vm_size, verdict, time_limit,
                 exe_class, timer, last, ncalls, sample, run, fs_vars, seen, unchecked>>

\* one turn of a do { waitpid } while (!WIFEXITED && !WIFSIGNALED) loop
WaitUntilDead(at, next) ==
  /\ pc = at
  /\ WaitReturns(tracee)
  /\ LET st == WaitStatus(tracee, status)
     IN  /\ status' = st
         /\ tracee' = WaitTracee(tracee)
         /\ IF WIFEXITED(st) \/ WIFSIGNALED(st)
              THEN pc' = next /\ tracee_is_dead_and_waited' = TRUE
              ELSE pc' = at /\ UNCHANGED tracee_is_dead_and_waited
         /\ acts' = IF tracee.state = "stopped" THEN 0 ELSE acts
  /\ UNCHANGED <<policy_vars, regs, pipe_msg, phase, syscall_no, vm_size,
                 verdict, time_limit, exe_class, timer, last, ncalls, sample, run, fs_vars, seen,
                 unchecked>>

\* lines 768-773
CatchWait == WaitUntilDead("catch_wait", "exit_normally")

\* a death by signal described in the message
exit_normally_described(st, vm, pipe) ==
  [how |-> "normal", status |-> st, runtime |-> "stopAndGetRuntime",
   vm_peak |-> vm * PAGESIZE,
   message |-> IF st.kind = "signaled" THEN "killed by signal " \o st.val
               ELSE receiveErrorMessage(st, pipe)]

\* lines 659-667: the verdict of exit_normally
exit_normally(st, vm, pipe) ==
  [how |-> "normal", status |-> st, runtime |-> "stopAndGetRuntime",
   vm_peak |-> vm * PAGESIZE,
   message |-> IF st # [kind |-> "exited", val |-> "0"]
                 THEN receiveErrorMessage(st, pipe)
                 ELSE ""]

ExitNormally ==
  /\ pc = "exit_normally"
  /\ timer' = TimerStopped(timer)
  /\ run' = [run EXCEPT !.stops = @ + 1]
  /\ verdict' = exit_normally(status, vm_size, pipe_msg)
  /\ pc' = "returned"
  /\ UNCHANGED <<policy_vars, tracee_vars, phase, status, syscall_no,
                 tracee_is_dead_and_waited, vm_size, time_limit, exe_class,
                 last, ncalls, sample, seen, unchecked, acts, file_vars>>
  /\ pfd' = IF pc' \in {"returned", "thrown"} THEN close_pipe0(pfd) ELSE pfd

\* line 782
DenyStopTimer ==
  /\ pc = "deny_timer"
  /\ timer' = TimerStopped(timer)
  /\ run' = [run EXCEPT !.stops = @ + 1]
  /\ pc' = "deny_kill"
  /\ UNCHANGED <<policy_vars, tracee_vars, phase, status, syscall_no,
                 tracee_is_dead_and_waited, vm_size, verdict, time_limit,
                 exe_class, last, ncalls, sample, seen, unchecked, acts,
                 fs_vars>>

\* the signal of line 785
DenySignal == "SIGKILL"

\* line 785
DenyKill ==
  /\ pc = "deny_kill"
  /\ tracee' = IF DenySignal = "SIGKILL" THEN Kill(tracee) ELSE tracee
  /\ acts' = Bump(acts)
  /\ pc' = "deny_wait"
  /\ UNCHANGED <<policy_vars, regs, pipe_msg, phase, status, syscall_no,
                 tracee_is_dead_and_waited, vm_size, verdict, time_limit,
                 exe_class, timer, last, ncalls, sample, run, fs_vars, seen, unchecked>>

\* lines 786-790
DenyWait == WaitUntilDead("deny_wait", "deny_message")

\* lines 792-806
DenyReturn ==
  /\ pc = "deny_message"
  /\ verdict' = [how |-> "denied", status |-> status,
                 runtime |-> "stopAndGetRuntime",
                 vm_peak |-> vm_size * PAGESIZE,
                 message |-> DenyMessage(arch, error_message, syscall_no)]
  /\ pc' = "returned"
  /\ UNCHANGED <<policy_vars, tracee_vars, phase, status, syscall_no,
                 tracee_is_dead_and_waited, vm_size, time_limit, exe_class,
                 timer, hist_vars, file_vars>>
  /\ pfd' = IF pc' \in {"returned", "thrown"} THEN close_pipe0(pfd) ELSE pfd

\* the guard does nothing
kill_and_wait_tracee_never(dead) == FALSE

\* line 579: does the guard kill and wait?
kill_and_wait_tracee(dead) == ~dead

\* an exception leaves execute: ~Timer, then kill_and_wait_tracee_guard
Unwind ==
  /\ pc = "unwind"
  /\ timer' = TimerStopped(timer)
  /\ pc' = IF kill_and_wait_tracee(tracee_is_dead_and_waited)
             THEN "guard_kill" ELSE "thrown"
  /\ UNCHANGED <<policy_vars, tracee_vars, phase, status, syscall_no,
                 tracee_is_dead_and_waited, vm_size, verdict, time_limit,
                 exe_class, hist_vars, file_vars>>
  /\ pfd' = IF pc' \in {"returned", "thrown"} THEN close_pipe0(pfd) ELSE pfd

\* line 580
GuardKill ==
  /\ pc = "guard_kill"
  /\ tracee' = Kill(tracee)
  /\ acts' = Bump(acts)
  /\ pc' = "guard_wait"
  /\ UNCHANGED <<policy_vars, regs, pipe_msg, phase, status, syscall_no,
                 tracee_is_dead_and_waited, vm_size, verdict, time_limit,
                 exe_class, timer, last, ncalls, sample, run, fs_vars, seen, unchecked>>

\* line 581: one waitpid, its status discarded
GuardWait ==
  /\ pc = "guard_wait"
  /\ WaitReturns(tracee)
  /\ tracee' = WaitTracee(tracee)
  /\ pc' = "thrown"
  /\ UNCHANGED <<policy_vars, regs, pipe_msg, phase, status, syscall_no,
                 tracee_is_dead_and_waited, vm_size, verdict, time_limit,
                 exe_class, timer, hist_vars, file_vars>>
  /\ pfd' = IF pc' \in {"returned", "thrown"} THEN close_pipe0(pfd) ELSE pfd

Supervisor ==
  \/ InitialWait \/ SetOptions \/ DetectArchitecture \/ OpenStatm
  \/ TimerStart \/ PtraceSyscall \/ Waitpid \/ PtraceCont \/ PeekSyscallNo
  \/ OnEntry \/ VmSample \/ OnExit \/ Catch \/ CatchKill \/ CatchWait
  \/ ExitNormally \/ DenyStopTimer \/ DenyKill \/ DenyWait \/ DenyReturn
  \/ Unwind \/ GuardKill \/ GuardWait

Tracee ==
  \/ ChildSetupFails
  \/ ChildStops
  \/ \E c \in ProgramCalls(tracee.prog, Abi) : TraceeEnters(c)
  \/ TraceeReturns
  \/ \E sig \in Signals : TraceeSignalled(sig)

Next == Supervisor \/ Tracee \/ TimerFires

Spec == Init /\ [][Next]_vars

\* execute called on "mixed" programs of either class
InitMixed == InitExec /\ tracee.prog = "mixed"

SpecExec == InitMixed /\ [][Next]_vars

(***************************************************************************)
(* execute from its first statement: the error pipe and the fork (lines    *)
(* 549-567).  Before the fork there is no child.                           *)
(***************************************************************************)
InitPipe ==
  /\ arch = -1
  /\ limited_syscalls = limited_syscalls_initial
  /\ unsuccessful_SYS_brk_counter = 0
  /\ error_message = ""
  /\ allowed_files = << >>
  /\ tracee = [state |-> "unborn", stop |-> "none", stopsig |-> "",
               reported |-> FALSE, mode |-> "syscall", sysno |-> -1,
               status |-> NoStatus, prog |-> "mixed", class |-> 2,
               listed |-> TRUE, traced |-> FALSE, execd |-> FALSE]
  /\ regs = NoRegs /\ pipe_msg = ""
  /\ pc = "pipe2" /\ phase = "entry" /\ status = NoStatus
  /\ syscall_no = -1
  /\ tracee_is_dead_and_waited = FALSE /\ vm_size = 0
  /\ verdict = NoVerdict
  /\ time_limit = 1
  /\ exe_class = 2
  /\ timer = "unset"
  /\ last = NoDecision /\ ncalls = 0 /\ sample = -1
  /\ run = [n |-> 1, used |-> FALSE, stops |-> 0]
  /\ path_arg = << >> /\ curr_dir = <<"/">> /\ out = << >>
  /\ pfd = [rd |-> "none", wr |-> "none"]
  /\ fdobj = NoObject
  /\ seen = [n \in LimitedNumbers |-> 0]
  /\ unchecked = FALSE /\ acts = 0

\* lines 550-552
Pipe2 ==
  /\ pc = "pipe2"
  /\ \E ok \in BOOLEAN :
       IF ok THEN pfd' = [rd |-> "open", wr |-> "open"] /\ pc' = "fork"
             ELSE pfd' = pfd /\ pc' = "thrown"
  /\ UNCHANGED <<policy_vars, tracee_vars, phase, status, syscall_no,
                 tracee_is_dead_and_waited, vm_size, verdict, time_limit,
                 exe_class, timer, hist_vars, file_vars>>

\* lines 554-556, in the parent: the child exists, or fork failed and
\* execute throws
Fork ==
  /\ pc = "fork"
  /\ \E ok \in BOOLEAN :
       IF ok THEN /\ tracee' = [tracee EXCEPT !.state = "setup"]
                  /\ pc' = "close_pfd1"
             ELSE tracee' = tracee /\ pc' = "thrown"
  /\ UNCHANGED <<policy_vars, regs, pipe_msg, phase, status, syscall_no,
                 tracee_is_dead_and_waited, vm_size, verdict, time_limit,
                 exe_class, timer, hist_vars, fs_vars>>

\* lines 566-567: sclose(pfd[1]); Closer close_pipe0(pfd[0])
ClosePfd1 ==
  /\ pc = "close_pfd1"
  /\ pfd' = [pfd EXCEPT !.wr = "closed"]
  /\ pc' = "initial_wait"
  /\ UNCHANGED <<policy_vars, tracee_vars, phase, status, syscall_no,
                 tracee_is_dead_and_waited, vm_size, verdict, time_limit,
                 exe_class, timer, hist_vars, file_vars>>

NextPipe == Next \/ Pipe2 \/ Fork \/ ClosePfd1

SpecPipe == InitPipe /\ [][NextPipe]_vars

(***************************************************************************)
(* The same program in a process whose signal handlers interrupt a blocked *)
(* waitpid: the call returns -1 with EINTR and writes no status.  execute  *)
(* does not look at the value waitpid returns (lines 571, 634), so it goes *)
(* on with `status` as it was.                                             *)
(***************************************************************************)
\* what an `int status` never written may hold at line 573
UnsetStatus ==
  {NoStatus, [kind |-> "stopped", val |-> "SIGSTOP"],
   [kind |-> "exited", val |-> "0"]}

\* lines 569-574, the waitpid of line 571 failing
InitialWaitInterrupted ==
  /\ pc = "initial_wait"
  /\ ~WaitReturns(tracee)
  /\ \E st \in UnsetStatus :
       /\ status' = st
       /\ IF SetupFailed(st)
            THEN /\ pc' = "returned"
                 /\ verdict' = [how |-> "setup", status |-> st,
                                runtime |-> "0", vm_peak |-> 0,
                                message |-> receiveErrorMessage(st, pipe_msg)]
            ELSE /\ pc' = "setoptions"
                 /\ UNCHANGED verdict
  /\ UNCHANGED <<policy_vars, tracee_vars, phase, syscall_no,
                 tracee_is_dead_and_waited, vm_size, time_limit, exe_class,
                 timer, hist_vars, file_vars>>
  /\ pfd' = IF pc' \in {"returned", "thrown"} THEN close_pipe0(pfd) ELSE pfd

\* lines 634-654, the waitpid of line 634 failing
WaitpidInterrupted ==
  /\ pc = "waitpid"
  /\ ~WaitReturns(tracee)
  /\ pc' = AfterWait(status, phase)
  /\ tracee_is_dead_and_waited' =
       (tracee_is_dead_and_waited
          \/ (~WIFSTOPPED(status) /\ (WIFEXITED(status) \/ WIFSIGNALED(status))))
  /\ UNCHANGED <<policy_vars, tracee_vars, phase, status, syscall_no, vm_size,
                 verdict, time_limit, exe_class, timer, hist_vars, fs_vars>>

NextEintr == Next \/ InitialWaitInterrupted \/ WaitpidInterrupted

\* one x86_64 tracee
InitEintr == Init /\ exe_class = 2 /\ tracee.prog = "mixed"

SpecEintr == InitEintr /\ [][NextEintr]_vars

(***************************************************************************)
(* Progress: execute is sequential code that takes its next step whenever  *)
(* it is not blocked in waitpid, and an armed timer eventually fires.  The *)
(* tracee is under no obligation: it may run or block for ever.            *)
(***************************************************************************)
\* runs of a 64-bit executable with a time limit
InitLive == Init /\ time_limit # 0 /\ exe_class = 2

SpecLive ==
  InitLive /\ [][Next]_vars /\ WF_vars(Supervisor) /\ WF_vars(TimerFires)

(***************************************************************************)
(* abspath (filesystem.cc), called with beg = 0 and end = npos.  A string  *)
(* is a sequence of characters; positions are counted from 0 as in the     *)
(* source, so the character at position i is str[i + 1].                   *)
(***************************************************************************)
Chars == {"/", ".", "a"}

Strings(n) == UNION {[1..k -> Chars] : k \in 0..n}

\* the directories abspath is called with: the default, the empty one and
\* a subdirectory of the root
CurrDirs == {<<"/">>, << >>, <<"/", "a">>}

Min(x, y) == IF x <= y THEN x ELSE y

\* position of the first c in str[beg, end), `end` when there is none
RECURSIVE find(_, _, _, _)
find(str, c, beg, end) ==
  IF beg >= end THEN end
  ELSE IF str[beg + 1] = c THEN beg
  ELSE find(str, c, beg + 1, end)

\* lines 431-432: while (beg < end && path[beg] == '/') ++beg
RECURSIVE skip_slashes(_, _, _)
skip_slashes(str, beg, end) ==
  IF beg < end /\ str[beg + 1] = "/" THEN skip_slashes(str, beg + 1, end)
  ELSE beg

\* lines 446-447: while (new_size > 0 && curr_dir[new_size - 1] != '/')
RECURSIVE last_component(_, _)
last_component(dir, new_size) ==
  IF new_size > 0 /\ dir[new_size] # "/" THEN last_component(dir, new_size - 1)
  ELSE new_size

\* lines 443-452: curr_dir without its last component
erase_last(dir) ==
  LET n  == last_component(dir, Len(dir))
      n2 == IF n > 1 THEN n - 1 ELSE n
  IN  SubSeq(dir, 1, n2)

\* lines 457-460
append_component(dir, comp) ==
  (IF Len(dir) > 0 /\ dir[Len(dir)] # "/" THEN Append(dir, "/") ELSE dir)
    \o comp

\* lines 430-462: the while loop
RECURSIVE abspath_loop(_, _, _, _)
abspath_loop(str, beg, end, dir) ==
  IF ~(beg < end) THEN dir
  ELSE LET b          == skip_slashes(str, beg, end)
           next_slash == Min(end, find(str, "/", b, end))
       IN  IF next_slash - b = 1 /\ str[b + 1] = "."
             THEN abspath_loop(str, next_slash, end, dir)
           ELSE IF next_slash - b = 2 /\ str[b + 1] = "." /\ str[b + 2] = "."
             THEN abspath_loop(str, next_slash, end, erase_last(dir))
           ELSE abspath_loop(str, next_slash, end,
                  append_component(dir, SubSeq(str, b + 1, next_slash)))

\* lines 421-467
abspath(str, beg, end, dir) ==
  LET e == Min(end, Len(str))
      d == IF beg < e /\ str[beg + 1] = "/" THEN <<"/">> ELSE dir
  IN  abspath_loop(str, beg, e, d)

InitPath ==
  /\ path_arg \in Strings(MaxPathLen)
  /\ curr_dir \in CurrDirs
  /\ out = << >>
  /\ pfd = [rd |-> "none", wr |-> "none"]
  /\ fdobj = NoObject
  /\ arch = ARCH_x86_64
  /\ limited_syscalls = limited_syscalls_initial
  /\ unsuccessful_SYS_brk_counter = 0
  /\ error_message = ""
  /\ allowed_files = << >>
  /\ tracee = [state |-> "setup", stop |-> "none", stopsig |-> "",
               reported |-> FALSE, mode |-> "syscall", sysno |-> -1,
               status |-> NoStatus, prog |-> "mixed", class |-> 2,
               listed |-> TRUE, traced |-> FALSE, execd |-> FALSE]
  /\ regs = NoRegs /\ pipe_msg = ""
  /\ pc = "abspath" /\ phase = "entry" /\ status = NoStatus
  /\ syscall_no = -1
  /\ tracee_is_dead_and_waited = FALSE /\ vm_size = 0
  /\ verdict = NoVerdict /\ time_limit = 0 /\ exe_class = 2
  /\ timer = "unset"
  /\ last = NoDecision /\ ncalls = 0 /\ sample = -1
  /\ run = [n |-> 1, used |-> FALSE, stops |-> 0]
  /\ seen = [n \in LimitedNumbers |-> 0]
  /\ unchecked = FALSE /\ acts = 0

\* abspath(path, 0, npos, curr_dir)
CallAbspath ==
  /\ out = << >>
  /\ out' = <<abspath(path_arg, 0, Len(path_arg), curr_dir)>>
  /\ UNCHANGED <<policy_vars, tracee_vars, super_vars, timer, hist_vars,
                 path_arg, curr_dir, pfd, fdobj>>

\* abspath applied to what the first call returned
CallAbspathAgain ==
  /\ Len(out) = 1
  /\ out' = Append(out, abspath(out[1], 0, Len(out[1]), curr_dir))
  /\ UNCHANGED <<policy_vars, tracee_vars, super_vars, timer, hist_vars,
                 path_arg, curr_dir, pfd, fdobj>>

NextPath == CallAbspath \/ CallAbspathAgain

SpecPath == InitPath /\ [][NextPath]_vars

(***************************************************************************)
(* FileDescriptor (filesystem.h): one object and the code that uses it.    *)
(* The kernel gives ::open the lowest descriptor not in use.               *)
(***************************************************************************)
Descriptors == 3..(2 + MaxFds)

\* what ::open, or the code that hands the object a descriptor, can yield:
\* -1, or the lowest free descriptor
Fresh(o) ==
  LET free == Descriptors \ o.open
  IN  {-1} \cup (IF free = {} THEN {}
                ELSE {CHOOSE d \in free : \A e \in free : d <= e})

\* the process after descriptor d was opened (d = -1: the open failed)
opened(o, d) == IF d >= 0 THEN [o EXCEPT !.open = @ \cup {d}] ELSE o

\* the member fd_ set to d
stored(o, d) ==
  [o EXCEPT !.fd_ = d, !.owned = IF d >= 0 THEN @ \cup {d} ELSE @]

\* sclose(d) called by the object
sclose(o, d) ==
  [o EXCEPT !.open = @ \ {d}, !.owned = @ \ {d},
            !.bad_close = @ \/ d \notin o.open]

\* lines 67-71
release(o) == [o EXCEPT !.fd_ = -1, !.owned = @ \ {o.fd_}]

\* lines 73-77
reset(o, d) == stored(IF o.fd_ >= 0 THEN sclose(o, o.fd_) ELSE o, d)

\* lines 79-82: fd_ = ::open(...)
open_fd(o, d) == stored(o, d)

\* lines 84-89: reset(::open(...))
reopen(o, d) == reset(o, d)

\* lines 91-98
close_fd(o) ==
  IF o.fd_ < 0 THEN o ELSE [sclose(o, o.fd_) EXCEPT !.fd_ = -1]

\* lines 100-103
destroy(o) ==
  [(IF o.fd_ >= 0 THEN sclose(o, o.fd_) ELSE o) EXCEPT !.live = FALSE]

InitFd ==
  /\ fdobj = NoObject
  /\ path_arg = << >> /\ curr_dir = <<"/">> /\ out = << >>
  /\ pfd = [rd |-> "none", wr |-> "none"]
  /\ arch = ARCH_x86_64
  /\ limited_syscalls = limited_syscalls_initial
  /\ unsuccessful_SYS_brk_counter = 0
  /\ error_message = ""
  /\ allowed_files = << >>
  /\ tracee = [state |-> "setup", stop |-> "none", stopsig |-> "",
               reported |-> FALSE, mode |-> "syscall", sysno |-> -1,
               status |-> NoStatus, prog |-> "mixed", class |-> 2,
               listed |-> TRUE, traced |-> FALSE, execd |-> FALSE]
  /\ regs = NoRegs /\ pipe_msg = ""
  /\ pc = "FileDescriptor" /\ phase = "entry" /\ status = NoStatus
  /\ syscall_no = -1
  /\ tracee_is_dead_and_waited = FALSE /\ vm_size = 0
  /\ verdict = NoVerdict /\ time_limit = 0 /\ exe_class = 2
  /\ timer = "unset"
  /\ last = NoDecision /\ ncalls = 0 /\ sample = -1
  /\ run = [n |-> 1, used |-> FALSE, stops |-> 0]
  /\ seen = [n \in LimitedNumbers |-> 0]
  /\ unchecked = FALSE /\ acts = 0

\* the other variables in a step of the object
FdFrame ==
  UNCHANGED <<policy_vars, tracee_vars, super_vars, timer, hist_vars,
              path_arg, curr_dir, out, pfd>>

\* lines 42-51: FileDescriptor(int), FileDescriptor(filename, flags, mode),
\* FileDescriptor(FileDescriptor&&)
Construct ==
  /\ ~fdobj.live
  /\ \E d \in Fresh(fdobj) :
       fdobj' = stored([opened(fdobj, d) EXCEPT !.live = TRUE, !.fd_ = -1], d)
  /\ FdFrame

Open ==
  /\ fdobj.live
  /\ \E d \in Fresh(fdobj) : fdobj' = open_fd(opened(fdobj, d), d)
  /\ FdFrame

Reopen ==
  /\ fdobj.live
  /\ \E d \in Fresh(fdobj) : fdobj' = reopen(opened(fdobj, d), d)
  /\ FdFrame

\* reset(fd) with a descriptor the caller opened, with -1, or with the
\* object's own value
Reset ==
  /\ fdobj.live
  /\ \E d \in Fresh(fdobj) \cup {fdobj.fd_} :
       fdobj' = reset(opened(fdobj, d), d)
  /\ FdFrame

\* lines 60-63: operator=(int)
AssignInt ==
  /\ fdobj.live
  /\ \E d \in Fresh(fdobj) \cup {fdobj.fd_} :
       fdobj' = reset(opened(fdobj, d), d)
  /\ FdFrame

\* lines 55-58: operator=(FileDescriptor&&) from another object, which
\* releases what it holds
MoveAssign ==
  /\ fdobj.live
  /\ \E d \in Fresh(fdobj) : fdobj' = reset(opened(fdobj, d), d)
  /\ FdFrame

Release ==
  /\ fdobj.live
  /\ fdobj' = release(fdobj)
  /\ FdFrame

Close ==
  /\ fdobj.live
  /\ fdobj' = close_fd(fdobj)
  /\ FdFrame

Destroy ==
  /\ fdobj.live
  /\ fdobj' = destroy(fdobj)
  /\ FdFrame

\* the code that took a descriptor from release() closes it
CallerCloses ==
  /\ \E d \in fdobj.open \ fdobj.owned :
       fdobj' = [fdobj EXCEPT !.open = @ \ {d}]
  /\ FdFrame

NextFd ==
  \/ Construct \/ Open \/ Reopen \/ Reset \/ AssignInt \/ MoveAssign
  \/ Release \/ Close \/ Destroy \/ CallerCloses

SpecFd == InitFd /\ [][NextFd]_vars

\* ---- properties ----

(***************************************************************************)
(* The tables as the specification document prints them.                   *)
(***************************************************************************)
DocAllow_i386 ==
  {1, 3, 4, 6, 13, 20, 24, 27, 29, 45, 47, 49, 50, 67, 72, 73, 76, 77, 78,
   82, 90, 91, 100, 108, 118, 125, 142, 143, 144, 145, 146, 148, 150, 151,
   152, 153, 162, 163, 168, 174, 175, 176, 177, 179, 180, 181, 184, 187,
   191, 192, 197, 199, 200, 201, 202, 219, 224, 231, 232, 239, 240, 244,
   250, 252, 265, 266, 267, 269, 272, 308, 309, 312, 323, 328, 333, 334,
   355, 376}

DocAllow_x86_64 ==
  {0, 1, 3, 5, 7, 9, 10, 11, 12, 13, 14, 17, 18, 19, 20, 23, 25, 26, 28, 34,
   35, 37, 39, 40, 60, 73, 74, 75, 96, 97, 98, 102, 104, 107, 108, 125, 127,
   128, 130, 138, 149, 150, 151, 152, 186, 193, 196, 201, 202, 211, 221,
   228, 229, 230, 231, 270, 271, 274, 284, 290, 295, 296, 318, 325}

DocAllow(a) == IF a = ARCH_i386 THEN DocAllow_i386 ELSE DocAllow_x86_64

DocBounded(a) ==
  IF a = ARCH_i386 THEN {11, 33, 85, 122, 243}
                   ELSE {21, 59, 63, 89, 158, 205}

DocOpen(a)   == IF a = ARCH_i386 THEN 5 ELSE 2
DocLseek(a)  == IF a = ARCH_i386 THEN {19, 140} ELSE {8}
DocTgkill(a) == IF a = ARCH_i386 THEN 270 ELSE 234

Range(f) == {f[i] : i \in DOMAIN f}

\* the decision left the policy object and the registers as they were
DecisionChangedNothing ==
  /\ limited_syscalls = last.limited_before
  /\ error_message = last.msg_before
  /\ unsuccessful_SYS_brk_counter = last.brk_before
  /\ regs = last.regs_before

(***************************************************************************)
(* C1: whenever execute has left, by returning a verdict or by an          *)
(* exception, the tracee has terminated and a waitpid of the supervisor    *)
(* has collected its terminal status: it is neither alive nor a zombie.    *)
(***************************************************************************)
Left == pc \in {"returned", "thrown"}

C2_AsStated == ~unchecked

(***************************************************************************)
(* C3: a verdict returned after a policy denial has a status of death by   *)
(* SIGKILL and a message that is not empty.                                *)
(***************************************************************************)
Denied == pc = "returned" /\ verdict.how = "denied"

C3_DenialVerdict ==
  Denied => /\ verdict.status = [kind |-> "signaled", val |-> "SIGKILL"]
            /\ verdict.message # ""

\* a denial without a message of the policy: the name table supplies one
C3_Witness ==
  /\ Denied /\ last.kind = "entry" /\ ~last.allow
  /\ error_message = ""
  /\ verdict.message = "forbidden syscall 41: socket()"

(***************************************************************************)
(* C4 (as stated): when the supervisor is about to wait again after a      *)
(* waitpid returned a stop of the tracee, it has issued exactly one        *)
(* request since that stop: one resume or one SIGKILL.                     *)
(***************************************************************************)
AboutToWait == pc \in {"waitpid", "catch_wait", "deny_wait", "guard_wait"}

C4_AsStated == (AboutToWait /\ WIFSTOPPED(status)) => acts = 1

(***************************************************************************)
(* C5.  The allow-lists of the source are the 78-entry i386 list and the   *)
(* 64-entry x86_64 list of the document, and on_entry answers Allow for    *)
(* every member of the list of the current architecture, changing neither  *)
(* the policy object nor a register of the tracee.                         *)
(***************************************************************************)
C5_AllowListed ==
  /\ Len(allowed_syscalls_i386) = 78
  /\ Range(allowed_syscalls_i386) = DocAllow_i386
  /\ Len(allowed_syscalls_x86_64) = 64
  /\ Range(allowed_syscalls_x86_64) = DocAllow_x86_64
  /\ (last.kind = "entry" /\ last.syscall \in DocAllow(arch))
       => (last.allow /\ DecisionChangedNothing)

\* the last entry of the i386 list, allowed on an object whose counters
\* and message are no longer the initial ones
C5_Witness ==
  /\ last.kind = "entry" /\ arch = ARCH_i386 /\ last.syscall = 376
  /\ last.allow
  /\ limited_syscalls # limited_syscalls_initial
  /\ error_message # ""

(***************************************************************************)
(* C6.  A bounded-count syscall (initial counter 1) is allowed by on_entry *)
(* on its first entry and denied on every later one.                       *)
(***************************************************************************)
C6_BoundedCount ==
  /\ \A a \in {1, 2} : \A i \in 1..Len(limited_syscalls_initial[a]) :
       limited_syscalls_initial[a][i].limit = 1
  /\ \A a \in {ARCH_i386, ARCH_x86_64} :
       DocBounded(a) = Range([i \in 1..Len(limited_syscalls_initial[a + 1])
                                |-> limited_syscalls_initial[a + 1][i].syscall])
  /\ (last.kind = "entry" /\ last.syscall \in DocBounded(arch))
       => (last.allow <=> seen[last.syscall] <= 1)

\* the third execve of an x86_64 tracee, denied
C6_Witness ==
  /\ last.kind = "entry" /\ arch = ARCH_x86_64 /\ last.syscall = 59
  /\ seen[59] = 3 /\ ~last.allow

(***************************************************************************)
(* C7.  on_entry denies every number that is, for the current              *)
(* architecture, neither allow-listed nor bounded-count nor open, lseek,   *)
(* _llseek (i386) or tgkill; 140 goes to the lseek check under i386 and is *)
(* denied under x86_64.                                                    *)
(***************************************************************************)
C7_OthersDenied ==
  last.kind = "entry" =>
    /\ (last.syscall \notin (DocAllow(arch) \cup DocBounded(arch) \cup
          DocLseek(arch) \cup {DocOpen(arch), DocTgkill(arch)}))
         => (~last.allow /\ DecisionChangedNothing)
    /\ (last.syscall = 140 /\ arch = ARCH_x86_64) => ~last.allow
    /\ (last.syscall = 140 /\ arch = ARCH_i386)
         => /\ last.allow = isSysLseekAllowed(last.regs_before).allow
            /\ regs = isSysLseekAllowed(last.regs_before).regs

\* 140 offered to an x86_64 policy
C7_Witness ==
  /\ last.kind = "entry" /\ arch = ARCH_x86_64 /\ last.syscall = 140
  /\ ~last.allow

(***************************************************************************)
(* C8.  open entry: an unreadable pathname is denied; a pathname that is a *)
(* member of the allowed-files list is allowed with the registers as they  *)
(* were; any other pathname is allowed with argument 1 replaced by a null  *)
(* pointer.                                                                *)
(***************************************************************************)
C8_Open ==
  (last.kind = "entry" /\ last.syscall = DocOpen(arch)) =>
    LET path == ReadString(last.regs_before.arg1)
    IN  IF path = Unreadable
          THEN ~last.allow /\ regs = last.regs_before
        ELSE IF path \in Range(allowed_files)
          THEN last.allow /\ regs = last.regs_before
        ELSE /\ last.allow
             /\ regs = [last.regs_before EXCEPT !.arg1 = 0]
             /\ last.regs_before.arg1 # 0

\* "/etc/passwd" opened against the list <<"/etc/hostname">>
C8_Witness ==
  /\ last.kind = "entry" /\ last.syscall = DocOpen(arch)
  /\ allowed_files = <<"/etc/hostname">>
  /\ ReadString(last.regs_before.arg1) = "/etc/passwd"
  /\ last.allow /\ regs.arg1 = 0

TgkillDecided == last.kind = "entry" /\ last.syscall = DocTgkill(arch)

C10_Tgkill ==
  TgkillDecided =>
    /\ last.allow <=> (last.regs_before.arg1 = cpid
                         /\ last.regs_before.arg2 = cpid)
    /\ ~last.allow => error_message = "tgkill to foreign process"
    /\ (~last.allow /\ pc = "returned") =>
         /\ verdict.how = "denied"
         /\ verdict.message = "tgkill to foreign process"

\* a tgkill aimed at another thread id ended the run
C10_Witness ==
  /\ TgkillDecided /\ ~last.allow /\ pc = "returned"
  /\ last.regs_before.arg1 = cpid /\ last.regs_before.arg2 = OtherPid
  /\ verdict.message = "tgkill to foreign process"

(***************************************************************************)
(* C11: on_exit inspects only brk.  A brk exit whose return value equals   *)
(* the requested argument adds one to the unsuccessful-brk counter; the    *)
(* answer is Allow while the counter is at most 128 and Deny with the      *)
(* message "brk failed too many times" once it exceeds 128, which the      *)
(* 129th such exit is the first to do.  The exit of any other syscall is   *)
(* allowed and changes nothing of the policy.                              *)
(***************************************************************************)
DocBrk(a) == IF a = ARCH_i386 THEN 45 ELSE 12

\* a step in which on_exit gave its answer
OnExitAnswered == pc = "on_exit" /\ pc' \in {"ptrace_syscall", "deny_timer"}

C11_Step ==
  OnExitAnswered =>
    LET unsuccessful == syscall_no = DocBrk(arch) /\ regs.ret = regs.arg1
    IN  /\ unsuccessful_SYS_brk_counter' =
             IF unsuccessful THEN unsuccessful_SYS_brk_counter + 1
                             ELSE unsuccessful_SYS_brk_counter
        /\ (pc' = "ptrace_syscall") <=> (unsuccessful_SYS_brk_counter' <= 128)
        /\ pc' = "deny_timer" =>
             /\ error_message' = "brk failed too many times"
             /\ unsuccessful_SYS_brk_counter' = 129
        /\ pc' = "ptrace_syscall" => error_message' = error_message
        /\ UNCHANGED <<arch, limited_syscalls, allowed_files, regs>>
        /\ syscall_no # DocBrk(arch) =>
             pc' = "ptrace_syscall" /\ UNCHANGED policy_vars

C11_BrkExit == [][C11_Step]_vars

\* the 129th unsuccessful brk exit has just been denied
C11_Witness ==
  /\ pc = "deny_timer" /\ last.kind = "exit" /\ syscall_no = DocBrk(arch)
  /\ unsuccessful_SYS_brk_counter = 129
  /\ error_message = "brk failed too many times"

(***************************************************************************)
(* C12: the message of a denial verdict is the policy's errorMessage()     *)
(* when that is not empty; otherwise it is "forbidden syscall N: name()"   *)
(* with the name of N in the table of the tracee's architecture tag, and   *)
(* "forbidden syscall N" alone when that table has no name for N.          *)
(***************************************************************************)
DocForbidden(a, no) ==
  IF a = ARCH_i386
    THEN CASE no = 5   -> "forbidden syscall 5: open()"
           [] no = 11  -> "forbidden syscall 11: execve()"
           [] no = 102 -> "forbidden syscall 102: socket()"
           [] no = 222 -> "forbidden syscall 222"
           [] OTHER    -> "?"
    ELSE CASE no = 2   -> "forbidden syscall 2: open()"
           [] no = 41  -> "forbidden syscall 41: socket()"
           [] no = 59  -> "forbidden syscall 59: execve()"
           [] OTHER    -> "?"

C12_DenialMessage ==
  Denied =>
    verdict.message = IF error_message # "" THEN error_message
                      ELSE DocForbidden(arch, syscall_no)

\* a denied number without a name under i386
C12_Witness ==
  /\ Denied /\ arch = ARCH_i386 /\ syscall_no = 222 /\ error_message = ""
  /\ verdict.message = "forbidden syscall 222"

\* a second execve: the name comes from the table of the tag
C12_WitnessNamed ==
  /\ Denied /\ arch = ARCH_x86_64 /\ syscall_no = 59 /\ error_message = ""
  /\ verdict.message = "forbidden syscall 59: execve()"

(***************************************************************************)
(* C13: when the timer has fired and killed the tracee, and the run        *)
(* returns a verdict that is not a policy denial, the tracee has been      *)
(* reaped, the status of the verdict is death by SIGKILL and its message   *)
(* is empty.                                                               *)
(***************************************************************************)
KilledByTimer ==
  /\ timer = "fired"
  /\ tracee.status = [kind |-> "signaled", val |-> "SIGKILL"]

C13_TimerKill ==
  (pc = "returned" /\ KilledByTimer /\ verdict.how # "denied") =>
    /\ tracee.state = "reaped"
    /\ verdict.how = "normal"
    /\ verdict.status = [kind |-> "signaled", val |-> "SIGKILL"]
    /\ verdict.message = ""

\* the timer fired while the tracee was inside an allowed syscall
C13_Witness ==
  /\ pc = "returned" /\ KilledByTimer /\ verdict.how = "normal"
  /\ phase = "exit" /\ tracee.state = "reaped"
  /\ verdict.message = ""

ExitedZero == [kind |-> "exited", val |-> "0"]

SetupVerdict(st, frame) ==
  [how |-> "setup", status |-> st, runtime |-> "0", vm_peak |-> 0,
   message |-> frame]

C15_Step ==
  /\ (pc = "initial_wait" /\ pc' # "initial_wait") =>
       IF tracee.state = "zombie"
         THEN /\ pc' = "returned"
              /\ verdict' = SetupVerdict(tracee.status, pipe_msg)
              /\ tracee'.state = "reaped"
              /\ UNCHANGED <<policy_vars, timer, last>>
         ELSE pc' = "setoptions" /\ verdict' = NoVerdict
  /\ (pc = "returned" /\ verdict.how = "setup") =>
       /\ UNCHANGED <<pc, verdict, policy_vars, timer, last>>
       /\ arch = -1 /\ timer = "unset" /\ last = NoDecision

C15_SetupFailure == [][C15_Step]_vars

\* the child was killed by a signal before it stopped
C15_Witness ==
  /\ pc = "returned"
  /\ verdict = SetupVerdict([kind |-> "signaled", val |-> "SIGSEGV"], "")
  /\ tracee.state = "reaped" /\ arch = -1 /\ timer = "unset"

\* the child reported a failed setup step
C15_WitnessFrame ==
  /\ pc = "returned"
  /\ verdict = SetupVerdict([kind |-> "exited", val |-> "255"],
                            "chdir() failed")

(***************************************************************************)
(* C16: the architecture tag is assigned once in a run, after the initial  *)
(* stop of the tracee and before the first isSyscallEntryAllowed; it is    *)
(* set, and never changes again, at every policy decision, every decision  *)
(* to sample the VM size and every lookup of a syscall name.               *)
(***************************************************************************)
UsesArch ==
  pc \in {"on_entry", "vm_sample", "on_exit", "deny_timer", "deny_kill",
          "deny_wait", "deny_message"}

C16_Step ==
  /\ arch' # arch =>
       /\ pc = "detect" /\ arch = -1
       /\ status = [kind |-> "stopped", val |-> "SIGSTOP"]
       /\ last = NoDecision
  /\ arch # -1 => arch' = arch

C16_ArchOnce ==
  /\ [](UsesArch => arch \in {ARCH_i386, ARCH_x86_64})
  /\ [][C16_Step]_vars

\* a name lookup under the tag that was set before the first decision
C16_Witness ==
  /\ pc = "deny_message" /\ arch = ARCH_x86_64 /\ last.kind = "entry"
  /\ ~last.allow /\ error_message = ""

(***************************************************************************)
(* C17: the peak VM size never decreases; after a sample it is the larger  *)
(* of the peak before and the sample, hence the maximum of all samples;    *)
(* it is 0 while no sample was taken; the vm_peak of a verdict is the peak *)
(* times the page size.                                                    *)
(***************************************************************************)
DocVmSet(a) == IF a = ARCH_i386 THEN {45, 90, 163, 192} ELSE {9, 12, 25}

\* a step in which statm was read
Sampled ==
  pc = "vm_sample" /\ pc' = "on_exit" /\ syscall_no \in DocVmSet(arch)

C17_Step ==
  /\ vm_size' >= vm_size
  /\ Sampled => /\ vm_size' >= sample'
                /\ vm_size' \in {vm_size, sample'}
  /\ ~Sampled => vm_size' = vm_size

C17_VmPeak ==
  /\ [](sample = -1 => vm_size = 0)
  /\ []((pc = "returned" /\ verdict.how \in {"normal", "denied"}) =>
          verdict.vm_peak = vm_size * PAGESIZE)
  /\ []((pc = "returned" /\ sample = -1) => verdict.vm_peak = 0)
  /\ [][C17_Step]_vars

\* a later, smaller sample left the peak where it was
C17_Witness ==
  /\ pc = "returned" /\ sample = 1 /\ vm_size = 2
  /\ verdict.vm_peak = 2 * PAGESIZE

(***************************************************************************)
(* C18: statm is read only at the syscall-exit stop of a syscall of the    *)
(* address-space set of the architecture (i386: 45, 90, 163, 192; x86_64:  *)
(* 9, 12, 25); after the exit of any other syscall no sample is taken and  *)
(* the peak stays as it was.                                               *)
(***************************************************************************)
C18_Step ==
  /\ (sample' # sample \/ vm_size' # vm_size) =>
       /\ pc = "vm_sample" /\ phase = "exit"
       /\ status = [kind |-> "stopped", val |-> "SYSCALL_TRAP"]
       /\ syscall_no \in DocVmSet(arch)
  /\ (pc = "vm_sample" /\ pc' # pc /\ syscall_no \notin DocVmSet(arch)) =>
       pc' = "on_exit" /\ UNCHANGED <<vm_size, sample>>

Swallowed == {"SIGSTOP", "SIGTRAP", "SIGCONT"}

\* a step of the supervisor that resumes the tracee from a signal stop
ResumesSignalStop ==
  /\ pc \in {"ptrace_syscall", "ptrace_cont"} /\ pc' # pc
  /\ tracee.state = "stopped" /\ tracee.stop = "signal"

C19_Step ==
  /\ ResumesSignalStop =>
       IF tracee.stopsig \in Swallowed
         THEN pc = "ptrace_syscall"
         ELSE pc = "ptrace_cont" /\ status.val = tracee.stopsig
  /\ pc \in {"peek", "on_entry", "vm_sample", "on_exit"} =>
       status = [kind |-> "stopped", val |-> "SYSCALL_TRAP"]

C19_AsStated == [][C19_Step]_vars

(***************************************************************************)
(* C20: when an error is raised in the loop (the peek of the syscall       *)
(* number, a register access of the policy, the read of statm) and the     *)
(* tracee is no longer controllable, the supervisor kills it, reaps it and *)
(* returns the verdict of a normal end; when it is still controllable the  *)
(* error is propagated, and only after the tracee was killed and reaped.   *)
(***************************************************************************)
C20_Step ==
  /\ (pc = "catch" /\ pc' # pc) =>
       IF tracee.state = "stopped" THEN pc' = "unwind" ELSE pc' = "catch_kill"
  /\ (pc = "catch_kill" /\ pc' # pc) =>
       pc' = "catch_wait" /\ tracee'.state \in {"zombie", "reaped"}
  /\ (pc = "catch_wait" /\ pc' # pc) =>
       pc' = "exit_normally" /\ tracee'.state = "reaped"
  /\ (pc = "exit_normally" /\ pc' # pc) =>
       /\ pc' = "returned" /\ verdict'.how = "normal"
       /\ verdict'.status = status /\ tracee.state = "reaped"
  /\ (pc = "unwind" /\ pc' # pc) =>
       pc' = "guard_kill" \/ (pc' = "thrown" /\ tracee.state = "reaped")
  /\ (pc = "guard_kill" /\ pc' # pc) =>
       pc' = "guard_wait" /\ tracee'.state \in {"zombie", "reaped"}
  /\ (pc = "guard_wait" /\ pc' # pc) =>
       pc' = "thrown" /\ tracee'.state = "reaped"

C20_CatchBlock ==
  /\ [](pc = "thrown" => tracee.state = "reaped")
  /\ [][C20_Step]_vars

\* the peek failed on a tracee the timer had killed: kill, then reap
C20_Witness ==
  /\ pc = "catch_wait" /\ phase = "entry" /\ tracee.state = "zombie"
  /\ KilledByTimer

\* the read of statm failed on a controllable tracee: thrown after the reap
C20_WitnessThrown ==
  /\ pc = "thrown" /\ phase = "exit" /\ syscall_no = DocBrk(arch)
  /\ tracee.state = "reaped" /\ timer # "fired"

(***************************************************************************)
(* C21 (as stated): a waitpid on the tracee that fails with EINTR is       *)
(* handled in the loop: the status word, which the failed call did not     *)
(* write, is not taken for a new stop or for a termination, and no policy  *)
(* decision follows from it.  Read on a step: when a wait that had no      *)
(* status to return is left, the supervisor goes back to waiting.          *)
(***************************************************************************)
WaitFailed ==
  /\ pc \in {"initial_wait", "waitpid"} /\ ~WaitReturns(tracee)
  /\ pc' # pc

C21_Step == WaitFailed => pc' \in {"initial_wait", "ptrace_syscall"}

C21_AsStated == [][C21_Step]_vars

(***************************************************************************)
(* C22 (as stated): the timer never sends its SIGKILL to the tracee's pid  *)
(* after the supervisor has reaped the tracee: when the timer fires, the   *)
(* terminal status of the tracee has not yet been collected by a waitpid.  *)
(***************************************************************************)
TimerSendsKill == timer = "armed" /\ timer' = "fired"

C22_Step == TimerSendsKill => tracee.state # "reaped"

C22_AsStated == [][C22_Step]_vars

(***************************************************************************)
(* C23: with a time limit that is not zero, every run that has entered the *)
(* supervisor loop eventually leaves it, with a verdict or with an error,  *)
(* whatever the tracee does, provided the timer eventually fires.          *)
(***************************************************************************)
InLoop == time_limit # 0 /\ timer = "armed"

C23_Terminates == InLoop ~> Left

\* the tracee made no syscall at all; the timer ended the run
C23_Witness ==
  /\ pc = "returned" /\ KilledByTimer /\ time_limit # 0
  /\ ncalls = 0 /\ last = NoDecision /\ ~unchecked

(***************************************************************************)
(* C24: with time_limit 0 the timer is inert.  It is never armed and never *)
(* fires; the tracee dies by SIGKILL only through the kill of a policy     *)
(* denial or the kill that precedes a propagated error; and a returned     *)
(* verdict is a setup failure, a denial, or the tracee's own termination.  *)
(***************************************************************************)
BySigkill == [kind |-> "signaled", val |-> "SIGKILL"]

C24_InertTimer ==
  time_limit = 0 =>
    /\ timer \in {"unset", "inert"}
    /\ tracee.status = BySigkill =>
         \/ pc \in {"deny_wait", "deny_message", "returned"} /\ ~last.allow
         \/ pc \in {"guard_wait", "thrown"}
    /\ pc = "returned" =>
         \/ verdict.how \in {"setup", "denied"}
         \/ /\ verdict.how = "normal"
            /\ verdict.status = tracee.status
            /\ verdict.status # BySigkill

\* no limit: the run ended when the tracee exited after its last call
C24_Witness ==
  /\ time_limit = 0 /\ timer = "inert" /\ pc = "returned"
  /\ verdict.how = "normal"
  /\ verdict.status = [kind |-> "exited", val |-> "0"]
  /\ ncalls = MaxCalls

(***************************************************************************)
(* C25: the state of the policy belongs to one run.  A new call of         *)
(* Sandbox::run with the default callback starts with every bounded        *)
(* counter at its initial value, the unsuccessful-brk counter at 0 and no  *)
(* message; in every run the counters and the decisions follow from the    *)
(* calls of that run alone, so a counter exhausted in the run before is    *)
(* whole again and equal call sequences get equal decisions.               *)
(***************************************************************************)
FreshPolicy ==
  /\ limited_syscalls = limited_syscalls_initial
  /\ unsuccessful_SYS_brk_counter = 0
  /\ error_message = ""

\* the counters as the calls of this run alone leave them
CountersOfThisRun ==
  /\ limited_syscalls[2 - arch] = limited_syscalls_initial[2 - arch]
  /\ \A i \in 1..Len(limited_syscalls[arch + 1]) :
       LET p == limited_syscalls[arch + 1][i]
       IN  /\ p.syscall = limited_syscalls_initial[arch + 1][i].syscall
           /\ p.limit = limited_syscalls_initial[arch + 1][i].limit
                          - seen[p.syscall]

C25_PerRun ==
  /\ ncalls = 0 => FreshPolicy
  /\ CountersOfThisRun
  /\ (last.kind = "entry" /\ last.syscall \in DocBounded(arch))
       => (last.allow <=> seen[last.syscall] <= 1)
  /\ (error_message # "") =>
       (ncalls > 0 /\ error_message = "tgkill to foreign process")

\* the run before used up execve; in this run the first execve is allowed
C25_Witness ==
  /\ run.n = 2 /\ run.used
  /\ arch = ARCH_x86_64 /\ last.kind = "entry" /\ last.syscall = 59
  /\ seen[59] = 1 /\ last.allow
  /\ last.limited_before = limited_syscalls_initial

(***************************************************************************)
(* C26 (as stated): what abspath returns has no component "." or "..", no  *)
(* two '/' in a row and no '/' at its end (the root "/" itself apart); a   *)
(* path that begins with '/' gives the same result for every curr_dir; and *)
(* abspath applied to its own result returns that result.                  *)
(***************************************************************************)
RECURSIVE Components(_)
Components(str) ==
  IF str = << >> THEN << >>
  ELSE LET n == find(str, "/", 0, Len(str))
       IN  <<SubSeq(str, 1, n)>> \o Components(SubSeq(str, n + 2, Len(str)))

NoDotComponent(str) ==
  \A i \in 1..Len(Components(str)) :
    Components(str)[i] \notin {<<".">>, <<".", ".">>}

NoRepeatedSlash(str) ==
  \A i \in 1..(Len(str) - 1) : ~(str[i] = "/" /\ str[i + 1] = "/")

NoSlashAtEnd(str) == Len(str) > 1 => str[Len(str)] # "/"

C26_AsStated ==
  /\ Len(out) >= 1 =>
       /\ NoDotComponent(out[1])
       /\ NoRepeatedSlash(out[1])
       /\ NoSlashAtEnd(out[1])
       /\ (Len(path_arg) > 0 /\ path_arg[1] = "/") =>
            \A d \in CurrDirs :
              abspath(path_arg, 0, Len(path_arg), d) = out[1]
  /\ Len(out) = 2 => out[2] = out[1]

(***************************************************************************)
(* C27: the policy sees entry and exit decisions strictly alternating.     *)
(* isSyscallExitAllowed(n) is called only when the decision before it was  *)
(* isSyscallEntryAllowed(n) answering Allow, for the same n, and the one   *)
(* syscall stop reported since then is the exit stop of that call.         *)
(* isSyscallEntryAllowed is called only when no entry decision is open:    *)
(* after an Allow the next decision is the exit decision, after a Deny     *)
(* there is none.                                                          *)
(***************************************************************************)
EntryDecided == pc = "on_entry" /\ pc' \in {"ptrace_syscall", "deny_timer"}

ExitDecided == pc = "on_exit" /\ pc' \in {"ptrace_syscall", "deny_timer"}

SyscallStop == [kind |-> "stopped", val |-> "SYSCALL_TRAP"]

C27_Step ==
  /\ ExitDecided =>
       /\ last.kind = "entry" /\ last.allow /\ last.syscall = syscall_no
       /\ phase = "exit" /\ status = SyscallStop
  /\ EntryDecided => last.kind = "none" /\ phase = "entry"
  \* an exit decision is preceded by the report of one syscall stop, the
  \* exit stop of the call that was allowed
  /\ (pc' = "on_exit" /\ pc # "on_exit") => pc = "vm_sample"
  /\ (pc' = "vm_sample" /\ pc # "vm_sample") =>
       /\ pc = "waitpid" /\ phase = "exit" /\ status' = SyscallStop
       /\ tracee'.stop = "exit" /\ tracee'.reported
       /\ tracee'.sysno = syscall_no
       /\ last.kind = "entry" /\ last.allow
  \* between the two decisions of a call no other decision is made
  /\ (last.kind = "entry" /\ last' # last) =>
       (ExitDecided /\ last.allow)
  /\ (last.kind = "entry" /\ ~last.allow) =>
       pc' \in {"deny_timer", "deny_kill", "deny_wait", "deny_message",
                "returned"}

EntryDenied == last.kind = "entry" /\ ~last.allow

C28_Step ==
  EntryDenied =>
    /\ pc \in {"deny_timer", "deny_kill", "deny_wait", "deny_message",
               "returned"}
    /\ pc' \notin {"ptrace_syscall", "ptrace_cont"}
    /\ tracee' # tracee =>
         \/ pc = "deny_kill" /\ pc' = "deny_wait" /\ tracee' = Kill(tracee)
         \/ pc = "deny_wait" /\ tracee' = WaitTracee(tracee)
         \/ timer = "armed" /\ timer' = "fired" /\ tracee' = Kill(tracee)
    /\ (pc = "deny_kill" /\ pc' # pc) =>
         pc' = "deny_wait" /\ ~Alive(tracee')
    /\ (pc = "deny_wait" /\ pc' # pc) =>
         /\ pc' = "deny_message" /\ tracee'.state = "reaped"
         /\ WIFEXITED(status') \/ WIFSIGNALED(status')
    /\ unchecked' = unchecked

DeathSeen ==
  /\ pc = "waitpid" /\ pc' # pc
  /\ WIFEXITED(status') \/ WIFSIGNALED(status')

Reporting ==
  \/ pc = "exit_normally"
  \/ pc = "returned" /\ verdict.how = "normal"

C29_Step ==
  /\ DeathSeen =>
       /\ pc' = "exit_normally" /\ tracee_is_dead_and_waited'
       /\ tracee'.state = "reaped"
  /\ Reporting =>
       /\ pc' \in {"exit_normally", "returned"}
       /\ pc' # pc => verdict' = exit_normally(status, vm_size, pipe_msg)
       /\ UNCHANGED <<policy_vars, tracee, regs, vm_size, sample, last, seen,
                      acts, unchecked>>

C29_DeathReported == [][C29_Step]_vars

\* the tracee ended inside an allowed call: seen by the wait for the exit
C29_Witness ==
  /\ pc = "returned" /\ verdict.how = "normal" /\ phase = "exit"
  /\ last.kind = "entry" /\ last.allow
  /\ verdict.status = [kind |-> "exited", val |-> "0"]

\* the tracee was ended by a signal: seen by the wait for an entry
C29_WitnessEntry ==
  /\ pc = "returned" /\ verdict.how = "normal" /\ phase = "entry"
  /\ verdict.status = [kind |-> "signaled", val |-> "SIGSEGV"]

(***************************************************************************)
(* C30 (as stated): every consultation of the policy and every reading of  *)
(* statm is made while the tracee is held in the syscall stop that the     *)
(* latest waitpid reported, with no resume request since; and no ptrace    *)
(* request that needs a stopped tracee is made while the tracee runs.      *)
(***************************************************************************)
Consulting ==
  /\ pc \in {"on_entry", "vm_sample", "on_exit"}
  /\ pc' # pc /\ pc' # "catch"

HeldInSyscallStop ==
  /\ tracee.state = "stopped" /\ tracee.reported
  /\ tracee.stop \in {"entry", "exit"} /\ acts = 0

PtraceRequest ==
  /\ pc \in {"setoptions", "ptrace_syscall", "ptrace_cont", "peek"}
  /\ pc' # pc

Runs(tr) == tr.state \in {"running", "insys"}

C30_Step ==
  /\ Consulting => (HeldInSyscallStop \/ ~Alive(tracee))
  /\ PtraceRequest => ~Runs(tracee)

C30_AsStated == [][C30_Step]_vars

(***************************************************************************)
(* C31: the probe maps class byte 1 to i386 and 2 to x86_64 and fails for  *)
(* every other value and for any open, seek or read failure; when it       *)
(* fails, execute throws: the tracee, stopped at that point, is killed and *)
(* reaped before the exception leaves execute, and no policy decision is   *)
(* ever made.                                                              *)
(***************************************************************************)
ProbeFailed == pc = "detect" /\ pc' = "unwind"

ProbeThrew == arch = -1 /\ pc \in {"unwind", "guard_kill", "guard_wait", "thrown"}

C31_Step ==
  /\ pc = "detect" =>
       /\ Controllable(tracee)
       /\ pc' = "open_statm" =>
            /\ exe_class \in {1, 2}
            /\ arch' = IF exe_class = 1 THEN ARCH_i386 ELSE ARCH_x86_64
       /\ exe_class \notin {1, 2} => pc' = "unwind"
       /\ ProbeFailed => UNCHANGED <<policy_vars, tracee_vars, hist_vars>>
  /\ ProbeThrew =>
       /\ pc' \in {"unwind", "guard_kill", "guard_wait", "thrown"}
       /\ UNCHANGED <<policy_vars, verdict, last, ncalls>>
       /\ pc' = "thrown" => tracee'.state = "reaped"

C31_ProbeFailure ==
  /\ [](/\ detectArchitecture(1) = ARCH_i386
         /\ detectArchitecture(2) = ARCH_x86_64
         /\ \A c \in (0..255) \ {1, 2} : detectArchitecture(c) = -1)
  /\ [](ProbeThrew => ncalls = 0 /\ last = NoDecision /\ verdict = NoVerdict)
  /\ [](ProbeThrew /\ pc = "thrown" =>
          tracee.state = "reaped"
          /\ tracee.status = [kind |-> "signaled", val |-> "SIGKILL"])
  /\ [][C31_Step]_vars

\* an executable of unknown class: the exception has left execute
C31_Witness ==
  /\ pc = "thrown" /\ arch = -1 /\ exe_class = 3
  /\ tracee.state = "reaped"

\* an executable of a known class that could not be read
C31_WitnessIo ==
  /\ pc = "thrown" /\ arch = -1 /\ exe_class = 1
  /\ status = [kind |-> "stopped", val |-> "SIGSTOP"]
  /\ tracee.state = "reaped"

(***************************************************************************)
(* C32: the architecture tag used for the policy decisions of a run        *)
(* describes the program the tracee executes: the tag is still correct     *)
(* after execvp has replaced the image that was current at the initial     *)
(* stop.                                                                   *)
(***************************************************************************)
C32_AsStated == UsesArch => arch = Abi

(***************************************************************************)
(* C33: for each architecture the allow-list, the bounded-count set and    *)
(* the special set (open, lseek, _llseek on i386, tgkill) are pairwise     *)
(* disjoint and both allow-lists are strictly ascending, so the binary     *)
(* search equals set membership and the order of the checks of an entry    *)
(* decision never changes it.                                              *)
(***************************************************************************)
AllowList(a) ==
  IF a = ARCH_i386 THEN allowed_syscalls_i386 ELSE allowed_syscalls_x86_64

BoundedSet(a) ==
  {limited_syscalls_initial[a + 1][i].syscall :
     i \in 1..Len(limited_syscalls_initial[a + 1])}

SpecialSet(a) ==
  {sys_open[a + 1], sys_lseek[a + 1], sys_tgkill[a + 1]}
    \cup (IF a = ARCH_i386 THEN {sys_llseek_i386} ELSE {})

StrictlyAscending(list) ==
  \A i \in 1..(Len(list) - 1) : list[i] < list[i + 1]

C33_Lists ==
  /\ \A a \in {ARCH_i386, ARCH_x86_64} :
       /\ Range(AllowList(a)) \cap BoundedSet(a) = {}
       /\ Range(AllowList(a)) \cap SpecialSet(a) = {}
       /\ BoundedSet(a) \cap SpecialSet(a) = {}
       /\ StrictlyAscending(AllowList(a))
  /\ SpecialSet(ARCH_i386) = {5, 19, 140, 270}
  /\ SpecialSet(ARCH_x86_64) = {2, 8, 234}
  /\ last.kind = "entry" =>
       /\ isSyscallIn(arch, last.syscall)
            <=> last.syscall \in Range(AllowList(arch))
       /\ (\/ isOpenNo(arch, last.syscall) \/ isLseekNo(arch, last.syscall)
           \/ isTgkillNo(arch, last.syscall))
            <=> last.syscall \in SpecialSet(arch)
       /\ LET rev == isSyscallEntryAllowed_reversed(arch, cpid, last.syscall,
                        last.limited_before, last.msg_before,
                        last.regs_before, allowed_files)
          IN  /\ rev.allow = last.allow
              /\ rev.limited = limited_syscalls
              /\ rev.msg = error_message
              /\ rev.regs = regs

\* an entry decision for a call of the special set, made after a
\* bounded-count call
C33_Witness ==
  /\ last.kind = "entry" /\ last.syscall \in SpecialSet(arch)
  /\ last.limited_before # limited_syscalls_initial

(***************************************************************************)
(* C34: a Deny for a bounded-count syscall leaves its counter unchanged: a *)
(* counter is decremented only together with an Allow, so no counter ever  *)
(* becomes negative, and repeated entry decisions for an exhausted syscall *)
(* on the same policy object never allow it again.                         *)
(***************************************************************************)
BoundedDenied ==
  last.kind = "entry" /\ ~last.allow /\ last.syscall \in BoundedSet(arch)

C34_AsStated ==
  /\ BoundedDenied => limited_syscalls = last.limited_before
  /\ \A a \in {1, 2} : \A i \in 1..Len(limited_syscalls[a]) :
       limited_syscalls[a][i].limit >= 0

(***************************************************************************)
(* C35: with the default policy of Sandbox::run, whose allowed-files list  *)
(* is empty, no open of the tracee is executed with its original pathname: *)
(* every open entry is denied (pathname unreadable) or proceeds with       *)
(* argument 1 replaced by a null pointer.                                  *)
(***************************************************************************)
ExecutingOpen == tracee.state = "insys" /\ tracee.sysno = sys_open[Abi + 1]

C35_AsStated == ExecutingOpen => regs.arg1 = 0

(***************************************************************************)
(* C36: the timer is started only after the ptrace options are set, the    *)
(* architecture is probed and statm is opened, and before the first        *)
(* PTRACE_SYSCALL; it is stopped exactly once on every path that returns a *)
(* verdict from the loop, and on the denial path it is stopped before      *)
(* SIGKILL is sent, so the reported runtime excludes killing and reaping.  *)
(***************************************************************************)
BeforeLoop == pc \in {"initial_wait", "setoptions", "detect", "open_statm",
                      "timer_start"}

LoopVerdict == pc = "returned" /\ verdict.how \in {"normal", "denied"}

C36_Step ==
  /\ timer' # timer /\ timer = "unset" =>
       /\ pc = "timer_start" /\ pc' = "ptrace_syscall"
       /\ arch \in {ARCH_i386, ARCH_x86_64}
       /\ status = [kind |-> "stopped", val |-> "SIGSTOP"]
       /\ tracee.state = "stopped" /\ tracee.stop = "signal"
       /\ acts = 0 /\ last = NoDecision
  /\ PtraceRequest /\ pc # "setoptions" => timer # "unset"
  /\ pc = "deny_kill" /\ pc' # pc =>
       /\ run.stops = 1 /\ run'.stops = 1
       /\ timer \notin {"unset", "armed"}
       /\ timer' = timer

C36_TimerOrder ==
  /\ [](BeforeLoop => timer = "unset")
  /\ [](timer = "unset" =>
          \/ BeforeLoop
          \/ pc = "returned" /\ verdict.how = "setup"
          \/ pc \in {"unwind", "guard_kill", "guard_wait", "thrown"}
             /\ last = NoDecision)
  /\ [](run.stops <= 1)
  /\ [](LoopVerdict =>
          /\ run.stops = 1
          /\ verdict.runtime = "stopAndGetRuntime"
          /\ timer \notin {"unset", "armed"})
  /\ [](pc \in {"deny_kill", "deny_wait", "deny_message"} => run.stops = 1)
  /\ [][C36_Step]_vars

\* a denial verdict of a run with a time limit
C36_Witness ==
  /\ pc = "returned" /\ verdict.how = "denied" /\ time_limit # 0
  /\ timer = "stopped" /\ run.stops = 1

\* a verdict built by exit_normally after the catch block's kill
C36_WitnessNormal ==
  /\ pc = "returned" /\ verdict.how = "normal" /\ run.stops = 1
  /\ timer = "stopped"

(***************************************************************************)
(* C37: in the child the self-trace request is made before execvp; if it   *)
(* fails, an error frame is written to the error pipe and the child never  *)
(* reaches execvp, so no program ever runs untraced.                       *)
(***************************************************************************)
TracemeFailed ==
  tracee.state = "setup" /\ pipe_msg' = "ptrace(PTRACE_TRACEME)"

C37_Step ==
  /\ TracemeFailed =>
       /\ ~tracee'.traced
       /\ tracee'.state = "zombie"
       /\ tracee'.status = [kind |-> "exited", val |-> "255"]
  /\ tracee.state = "setup" /\ Alive(tracee') /\ tracee' # tracee =>
       tracee'.traced /\ tracee'.state = "stopped"
  /\ tracee.state \in {"zombie", "reaped"} => ~Runs(tracee')

C37_TraceBeforeExec ==
  /\ [](Runs(tracee) => tracee.traced)
  /\ [](pipe_msg = "ptrace(PTRACE_TRACEME)" => ~Alive(tracee) /\ ~tracee.traced)
  /\ [][C37_Step]_vars

\* the failure of the request reported by the supervisor
C37_Witness ==
  /\ pc = "returned" /\ verdict.how = "setup"
  /\ verdict.message = "ptrace(PTRACE_TRACEME)"
  /\ ~tracee.traced /\ tracee.state = "reaped"

(***************************************************************************)
(* C38: the parent closes its copy of the error pipe's write end before    *)
(* its first waitpid and before any read of the pipe, and the read end is  *)
(* closed on every exit path of execute; hence once the tracee has exec'd  *)
(* or died, a read of the error channel reaches end of file and cannot     *)
(* block the supervisor forever.                                           *)
(***************************************************************************)
BeforeFirstWait == pc \in {"pipe2", "fork", "close_pfd1"}

\* a step that calls receiveErrorMessage (lines 574 and 662-664)
ReadsPipe ==
  \/ pc = "initial_wait" /\ pc' = "returned"
  \/ pc = "exit_normally" /\ pc' = "returned"
     /\ status # [kind |-> "exited", val |-> "0"]

\* some process still has the write end open
WriteEndOpen ==
  \/ pfd.wr = "open"
  \/ Alive(tracee) /\ ~tracee.execd

\* from the first waitpid on
C38_WriteEndFirst ==
  ~BeforeFirstWait /\ tracee.state # "unborn" => pfd.wr = "closed"

C38_ReadStep == ReadsPipe => pfd.rd = "open" /\ ~WriteEndOpen

C38_AsStated ==
  /\ [](C38_WriteEndFirst)
  /\ [][C38_ReadStep]_vars
  /\ [](Left => pfd.rd # "open")

(***************************************************************************)
(* C39: for any sequence of FileDescriptor operations (construct, open,    *)
(* reopen, reset, operator=, release, close, destroy) every descriptor the *)
(* object has owned and not released is closed exactly once: none is       *)
(* closed twice and none is dropped without being closed when the object   *)
(* takes a new descriptor or is destroyed.                                 *)
(***************************************************************************)
C39_AsStated ==
  /\ ~fdobj.bad_close
  /\ fdobj.owned \subseteq fdobj.open
  /\ fdobj.owned \subseteq {fdobj.fd_}
  /\ ~fdobj.live => fdobj.owned = {}
=============================================================================
